---------------------------- MODULE Spec2Model ----------------------------
(***************************************************************************)
(* LLGL: the Vulkan command recorder (VKCommandBuffer) and the OpenGL      *)
(* render target (GLRenderTarget).                                         *)
(*                                                                         *)
(* The recorder is modelled as a state machine over its member fields      *)
(* (rec), the native state of every command buffer and fence it owns       *)
(* (cmdBuf, fence), and the record of the most recent API call with the    *)
(* native calls that call issued, in order (call).  Native calls with      *)
(* valid usage are taken to succeed.                                       *)
(***************************************************************************)
EXTENDS Integers, Sequences, FiniteSets, TLC

VARIABLES
    rec,        \* member fields of the VKCommandBuffer object
    cmdBuf,     \* native state of each VkCommandBuffer of commandBufferList_
    fence,      \* native state of each VkFence of recordingFenceList_
    ctx,        \* the VKRenderContext: which recorder is its present command buffer
    rt,         \* the GLRenderTarget the most recent Bind constructed, or its exception
    call        \* the most recent API call and the native calls it issued

vars == <<rec, cmdBuf, fence, ctx, rt, call>>

-----------------------------------------------------------------------------
(* Bounds and program constants *)

\* bufferCount handed to the constructor (buffering depth)
BufferCount == 2

\* longest viewport or scissor list a caller passes
MaxViewports == 34

\* most color attachments a VKRenderTarget reports
MaxColorAttachments == 34

\* number of distinct list contents per length
MaxSeed == 2

\* most attachments of one kind a render target descriptor repeats
MaxAttachments == 33

\* longest list of clear commands handed to ClearAttachments
MaxClearEntries == 35

\* largest color attachment index handed to BlitOntoScreen
MaxSlotIndex == 3

g_maxNumViewportsPerBatch == 16

g_maxNumColorAttachments == 32

g_maxNumAttachments == g_maxNumColorAttachments + 1

g_maxFramebufferAttachments == 32

VK_NULL_HANDLE == 0

Slots == 0 .. (BufferCount - 1)

\* commandBufferActiveList_.end()
EndIt == BufferCount

\* ClearFlags bits
ClearFlags_Color == 1

ClearFlags_Depth == 2

ClearFlags_Stencil == 4

-----------------------------------------------------------------------------
(* Inputs: render targets, the swap chain of a render context, pipelines *)

\* what SetRenderTarget reads from a VKRenderTarget
MakeTarget(p, e, k, d, s) ==
    [renderPass |-> p, framebuffer |-> p, extent |-> e,
     numColorAttachments |-> k, hasDepth |-> d, hasStencil |-> s]

RenderTargets ==
    { MakeTarget(1, <<4, 4>>, 1, FALSE, FALSE),
      MakeTarget(2, <<8, 4>>, 3, TRUE, FALSE) }

\* what SetRenderTarget reads from a VKRenderContext
SwapChains ==
    { [renderPass |-> 3, framebuffer |-> 3, extent |-> <<6, 6>>, hasDepthStencil |-> TRUE] }

\* arguments of a direct SetRenderPass call, the null handle included
RenderPassArgs ==
    { [renderPass |-> t.renderPass, framebuffer |-> t.framebuffer, extent |-> t.extent] :
        t \in RenderTargets }
    \cup { [renderPass |-> VK_NULL_HANDLE, framebuffer |-> VK_NULL_HANDLE, extent |-> <<0, 0>>] }

\* what SetGraphicsPipeline reads from a VKGraphicsPipeline
Pipelines ==
    { [id |-> 1, scissorEnabled |-> TRUE,  dynamicScissor |-> TRUE],
      [id |-> 2, scissorEnabled |-> FALSE, dynamicScissor |-> TRUE],
      [id |-> 3, scissorEnabled |-> FALSE, dynamicScissor |-> FALSE] }

\* VkRect2D
Rect(offset, extent) == [offset |-> offset, extent |-> extent]

\* LLGL Scissor structures a caller passes
MakeScissor(x, y, w, h) == [x |-> x, y |-> y, width |-> w, height |-> h]

Scissors == { MakeScissor(1, 1, 2, 2), MakeScissor(0, 0, 4, 4) }

\* short scissor lists for SetScissors inside a render pass
ScissorLists ==
    { <<>>, << MakeScissor(1, 1, 2, 2) >>,
      << MakeScissor(0, 0, 4, 4), MakeScissor(1, 1, 2, 2) >> }

\* the i-th (0-based) entry of the list a caller builds from a seed
MakeViewport(i, seed) ==
    [x |-> i, y |-> seed, width |-> 4 + seed, height |-> 4, minDepth |-> 0, maxDepth |-> 1]

ViewportList(n, seed) == [k \in 1 .. n |-> MakeViewport(k - 1, seed)]

ScissorList(n, seed) == [k \in 1 .. n |-> MakeScissor(k - 1, seed, 4 + seed, 4)]

\* VKTypes::Convert(VkViewport&, const Viewport&): member by member
ConvertViewport(v) ==
    [x |-> v.x, y |-> v.y, width |-> v.width, height |-> v.height,
     minDepth |-> v.minDepth, maxDepth |-> v.maxDepth]

\* VKTypes::Convert(VkRect2D&, const Scissor&)
ConvertScissor(sc) == Rect(<<sc.x, sc.y>>, <<sc.width, sc.height>>)

Min(a, b) == IF a < b THEN a ELSE b

\* (flags & bit) != 0 for a single-bit mask
HasBit(flags, bit) == (flags \div bit) % 2 = 1

-----------------------------------------------------------------------------
(* Native Vulkan objects *)

FreshCmdBuf == [state |-> "initial", pass |-> "outside", scissor |-> "undefined"]

\* the effect of one native call on the command buffer it is recorded into
ApplyNative(b, c) ==
    CASE c.cmd = "vkBeginCommandBuffer" ->
            [state |-> "recording", pass |-> "outside", scissor |-> "undefined"]
      [] c.cmd = "vkEndCommandBuffer" ->
            IF b.state = "recording"
            THEN [b EXCEPT !.state = IF b.pass = "outside" THEN "executable" ELSE "invalid"]
            ELSE b
      [] c.cmd = "vkCmdBeginRenderPass" ->
            IF b.state = "recording"
            THEN [b EXCEPT !.pass = IF b.pass = "outside" THEN "inside" ELSE "invalid"]
            ELSE b
      [] c.cmd = "vkCmdEndRenderPass" ->
            IF b.state = "recording"
            THEN [b EXCEPT !.pass = IF b.pass = "inside" THEN "outside" ELSE "invalid"]
            ELSE b
      [] c.cmd = "vkCmdSetScissor" ->
            IF b.state = "recording" /\ c.first = 0 /\ c.count > 0
            THEN [b EXCEPT !.scissor = c.rects[1]]
            ELSE b
      [] OTHER -> b

\* the machine a handler runs on: the fields, the native objects, and the
\* native calls issued so far by the running handler
Machine == [rec |-> rec, cmdBuf |-> cmdBuf, fence |-> fence, cmds |-> <<>>]

\* a native call on the current command buffer (commandBuffer_)
Record(m, c) ==
    LET cc == c @@ [cb |-> m.rec.commandBuffer_] IN
    [m EXCEPT !.cmds = Append(@, cc),
              !.cmdBuf[m.rec.commandBuffer_] = ApplyNative(@, cc)]

-----------------------------------------------------------------------------
(* VKCommandBuffer *)

\* *commandBufferActiveIt_; the iterator is end() until SetPresentIndex ran,
\* and reading through end() yields whatever the build produces (ub)
IsCommandBufferActive(m, ub) ==
    IF m.rec.commandBufferActiveIt_ = EndIt
    THEN ub
    ELSE m.rec.commandBufferActiveList_[m.rec.commandBufferActiveIt_]

\* *commandBufferActiveIt_ = v; a store through end() lands outside the list
StoreActive(m, v) ==
    IF m.rec.commandBufferActiveIt_ = EndIt
    THEN m
    ELSE [m EXCEPT !.rec.commandBufferActiveList_[m.rec.commandBufferActiveIt_] = v]

\* mutant: the wait returns whatever the state of the fence
FenceWaitReturns_NoWait(m) == TRUE

\* vkWaitForFences(recordingFence_, UINT64_MAX) returns once the fence is signaled
FenceWaitReturns(m) == m.fence[m.rec.recordingFence_] = "signaled"

\* mutant: the fence of the previous slot is kept
SetPresentIndexM_KeepFence(m, idx) ==
    [m EXCEPT !.rec.commandBuffer_ = idx,
              !.rec.commandBufferActiveIt_ = idx]

SetPresentIndexM(m, idx) ==
    [m EXCEPT !.rec.commandBuffer_ = idx,
              !.rec.commandBufferActiveIt_ = idx,
              !.rec.recordingFence_ = idx]

BeginCommandBufferM(m) ==
    LET f  == m.rec.recordingFence_
        m1 == [m EXCEPT !.cmds = @ \o << [cmd |-> "vkWaitForFences", fence |-> f],
                                          [cmd |-> "vkResetFences", fence |-> f] >>,
                        !.fence[f] = "unsignaled"]
        m2 == Record(m1, [cmd |-> "vkBeginCommandBuffer"])
    IN  StoreActive(m2, TRUE)

EndCommandBufferM(m) ==
    StoreActive(Record(m, [cmd |-> "vkEndCommandBuffer"]), FALSE)

BeginRenderPassM(m, renderPass, framebuffer, extent) ==
    Record(m, [cmd |-> "vkCmdBeginRenderPass", renderPass |-> renderPass,
               framebuffer |-> framebuffer, extent |-> extent])

EndRenderPassM(m) == Record(m, [cmd |-> "vkCmdEndRenderPass"])

\* mutant: binding the render pass that is already active is elided
SetRenderPassM_Elide(m, renderPass, framebuffer, extent) ==
    IF renderPass = m.rec.renderPass_
    THEN m
    ELSE LET m1 == IF m.rec.renderPass_ # VK_NULL_HANDLE THEN EndRenderPassM(m) ELSE m
         IN  IF renderPass # VK_NULL_HANDLE
             THEN LET m2 == BeginRenderPassM(m1, renderPass, framebuffer, extent)
                  IN  [m2 EXCEPT !.rec.renderPass_ = renderPass,
                                 !.rec.framebuffer_ = framebuffer,
                                 !.rec.framebufferExtent_ = extent,
                                 !.rec.scissorRectInvalidated_ = TRUE]
             ELSE m1

SetRenderPassM(m, renderPass, framebuffer, extent) ==
    LET m1 == IF m.rec.renderPass_ # VK_NULL_HANDLE THEN EndRenderPassM(m) ELSE m
    IN  IF renderPass # VK_NULL_HANDLE
        THEN LET m2 == BeginRenderPassM(m1, renderPass, framebuffer, extent)
             IN  [m2 EXCEPT !.rec.renderPass_ = renderPass,
                            !.rec.framebuffer_ = framebuffer,
                            !.rec.framebufferExtent_ = extent,
                            !.rec.scissorRectInvalidated_ = TRUE]
        ELSE m1

SetRenderPassNullM(m) ==
    IF m.rec.renderPass_ # VK_NULL_HANDLE
    THEN [EndRenderPassM(m) EXCEPT !.rec.renderPass_ = VK_NULL_HANDLE,
                                   !.rec.framebuffer_ = VK_NULL_HANDLE]
    ELSE m

\* SetRenderTarget(RenderTarget&)
SetRenderTargetM(m, t, ub) ==
    LET m1 == IF ~IsCommandBufferActive(m, ub) THEN BeginCommandBufferM(m) ELSE m
        m2 == SetRenderPassM(m1, t.renderPass, t.framebuffer, t.extent)
    IN  [m2 EXCEPT !.rec.numColorAttachments_ = t.numColorAttachments,
                   !.rec.hasDSVAttachment_ = (t.hasDepth \/ t.hasStencil)]

\* VKRenderContext::SetPresentCommandBuffer: the context keeps the recorder and
\* switches it to the context's presentation index
SetPresentCommandBufferM(m, presentImageIndex) == SetPresentIndexM(m, presentImageIndex)

\* mutant: the is-active flag is tested before the context switched the slot
SetRenderContextM_TestFirst(m, sc, presentImageIndex, ub) ==
    LET active == IsCommandBufferActive(m, ub)
        m0 == SetPresentCommandBufferM(m, presentImageIndex)
        m1 == IF ~active THEN BeginCommandBufferM(m0) ELSE m0
        m2 == SetRenderPassM(m1, sc.renderPass, sc.framebuffer, sc.extent)
    IN  [m2 EXCEPT !.rec.numColorAttachments_ = 1,
                   !.rec.hasDSVAttachment_ = sc.hasDepthStencil]

\* SetRenderTarget(RenderContext&)
SetRenderContextM(m, sc, presentImageIndex, ub) ==
    LET m0 == SetPresentCommandBufferM(m, presentImageIndex)
        m1 == IF ~IsCommandBufferActive(m0, ub) THEN BeginCommandBufferM(m0) ELSE m0
        m2 == SetRenderPassM(m1, sc.renderPass, sc.framebuffer, sc.extent)
    IN  [m2 EXCEPT !.rec.numColorAttachments_ = 1,
                   !.rec.hasDSVAttachment_ = sc.hasDepthStencil]

\* mutant: scissorRectInvalidated_ stays set after the scissor was recorded
SetGraphicsPipelineM_KeepInvalidated(m, p) ==
    LET m1 == Record(m, [cmd |-> "vkCmdBindPipeline", pipeline |-> p.id])
        m2 == [m1 EXCEPT !.rec.scissorEnabled_ = p.scissorEnabled]
    IN  IF ~m2.rec.scissorEnabled_ /\ m2.rec.scissorRectInvalidated_ /\ p.dynamicScissor
        THEN Record(m2, [cmd |-> "vkCmdSetScissor", first |-> 0, count |-> 1,
                         rects |-> << Rect(<<0, 0>>, m2.rec.framebufferExtent_) >>])
        ELSE m2

SetGraphicsPipelineM(m, p) ==
    LET m1 == Record(m, [cmd |-> "vkCmdBindPipeline", pipeline |-> p.id])
        m2 == [m1 EXCEPT !.rec.scissorEnabled_ = p.scissorEnabled]
    IN  IF ~m2.rec.scissorEnabled_ /\ m2.rec.scissorRectInvalidated_ /\ p.dynamicScissor
        THEN [Record(m2, [cmd |-> "vkCmdSetScissor", first |-> 0, count |-> 1,
                          rects |-> << Rect(<<0, 0>>, m2.rec.framebufferExtent_) >>])
                EXCEPT !.rec.scissorRectInvalidated_ = FALSE]
        ELSE m2

\* mutant: the scissor rectangle is recorded whatever scissorEnabled_ is
SetScissorM_Unguarded(m, scissor) ==
    Record(m, [cmd |-> "vkCmdSetScissor", first |-> 0, count |-> 1,
               rects |-> << ConvertScissor(scissor) >>])

SetScissorM(m, scissor) ==
    IF m.rec.scissorEnabled_
    THEN Record(m, [cmd |-> "vkCmdSetScissor", first |-> 0, count |-> 1,
                    rects |-> << ConvertScissor(scissor) >>])
    ELSE m

\* mutant: a batch takes up to one entry more than the local array holds
RECURSIVE ViewportBatches_Wide(_, _, _, _)
ViewportBatches_Wide(m, i, numViewports, viewports) ==
    IF i < numViewports
    THEN LET count == Min(numViewports, g_maxNumViewportsPerBatch + 1)
             first == i
             viewportsVK == [k \in 1 .. count |-> ConvertViewport(viewports[first + k])]
             m1 == Record(m, [cmd |-> "vkCmdSetViewport", first |-> first,
                              count |-> count, viewports |-> viewportsVK])
         IN  ViewportBatches_Wide(m1, first + count, numViewports - count, viewports)
    ELSE m

\* the for loop of SetViewports: i and numViewports are its loop variables
RECURSIVE ViewportBatches(_, _, _, _)
ViewportBatches(m, i, numViewports, viewports) ==
    IF i < numViewports
    THEN LET count == Min(numViewports, g_maxNumViewportsPerBatch)
             first == i
             viewportsVK == [k \in 1 .. count |-> ConvertViewport(viewports[first + k])]
             m1 == Record(m, [cmd |-> "vkCmdSetViewport", first |-> first,
                              count |-> count, viewports |-> viewportsVK])
         IN  ViewportBatches(m1, first + count, numViewports - count, viewports)
    ELSE m

SetViewportsM(m, numViewports, viewports) == ViewportBatches(m, 0, numViewports, viewports)

\* the for loop of SetScissors
RECURSIVE ScissorBatches(_, _, _, _)
ScissorBatches(m, i, numScissors, scissors) ==
    IF i < numScissors
    THEN LET count == Min(numScissors, g_maxNumViewportsPerBatch)
             first == i
             scissorsVK == [k \in 1 .. count |-> ConvertScissor(scissors[first + k])]
             m1 == Record(m, [cmd |-> "vkCmdSetScissor", first |-> first,
                              count |-> count, rects |-> scissorsVK])
         IN  ScissorBatches(m1, first + count, numScissors - count, scissors)
    ELSE m

SetScissorsM(m, numScissors, scissors) ==
    IF m.rec.scissorEnabled_ THEN ScissorBatches(m, 0, numScissors, scissors) ELSE m

\* mutant: both aspects whenever one of the two bits is set
GetDepthStencilAspectMask_Both(flags) ==
    IF HasBit(flags, ClearFlags_Depth) \/ HasBit(flags, ClearFlags_Stencil)
    THEN {"DEPTH", "STENCIL"} ELSE {}

GetDepthStencilAspectMask(flags) ==
    (IF HasBit(flags, ClearFlags_Depth) THEN {"DEPTH"} ELSE {})
    \cup (IF HasBit(flags, ClearFlags_Stencil) THEN {"STENCIL"} ELSE {})

ClearFramebufferAttachmentsM(m, attachments) ==
    IF Len(attachments) > 0
    THEN Record(m, [cmd |-> "vkCmdClearAttachments", attachments |-> attachments,
                    rect |-> Rect(<<0, 0>>, m.rec.framebufferExtent_),
                    baseArrayLayer |-> 0, layerCount |-> 1])
    ELSE m

\* what vkGetQueryPoolResults answers
QueryPollAnswers ==
    {"VK_SUCCESS", "VK_NOT_READY", "VK_ERROR_DEVICE_LOST", "VK_ERROR_OUT_OF_HOST_MEMORY"}

\* VKThrowIfFailed throws unless the result is VK_SUCCESS
VKThrowIfFailed(result) == result # "VK_SUCCESS"

\* vkGetQueryPoolResults for query 0 of the pool with the flags of the call
GetQueryPoolResults(m, dataSize) ==
    [m EXCEPT !.cmds = Append(@, [cmd |-> "vkGetQueryPoolResults", firstQuery |-> 0,
                                  queryCount |-> 1, dataSize |-> dataSize,
                                  flags |-> {"VK_QUERY_RESULT_64_BIT"}])]

\* mutant: a poll that is not ready is treated like any failure
QueryResultM_NoNotReady(m, stateResult, data) ==
    LET m1 == GetQueryPoolResults(m, 1) IN
    IF VKThrowIfFailed(stateResult)
    THEN [m |-> m1, ret |-> "throw", result |-> <<>>]
    ELSE [m |-> m1, ret |-> "true", result |-> << data[1] >>]

\* QueryResult: the machine, what the call returns, and the output parameter
\* (empty when the native call stored nothing)
QueryResultM(m, stateResult, data) ==
    LET m1 == GetQueryPoolResults(m, 1) IN
    IF stateResult = "VK_NOT_READY"
    THEN [m |-> m1, ret |-> "false", result |-> <<>>]
    ELSE IF VKThrowIfFailed(stateResult)
    THEN [m |-> m1, ret |-> "throw", result |-> <<>>]
    ELSE [m |-> m1, ret |-> "true", result |-> << data[1] >>]

QueryPipelineStatisticsResultM(m, stateResult, intermediateResults) ==
    LET m1 == GetQueryPoolResults(m, 11) IN
    IF stateResult = "VK_NOT_READY"
    THEN [m |-> m1, ret |-> "false", result |-> <<>>]
    ELSE IF VKThrowIfFailed(stateResult)
    THEN [m |-> m1, ret |-> "throw", result |-> <<>>]
    ELSE [m |-> m1, ret |-> "true",
          result |-> [numPrimitivesGenerated             |-> 0,
                      numVerticesSubmitted               |-> intermediateResults[1],
                      numPrimitivesSubmitted             |-> intermediateResults[2],
                      numVertexShaderInvocations         |-> intermediateResults[3],
                      numTessControlShaderInvocations    |-> intermediateResults[9],
                      numTessEvaluationShaderInvocations |-> intermediateResults[10],
                      numGeometryShaderInvocations       |-> intermediateResults[4],
                      numFragmentShaderInvocations       |-> intermediateResults[8],
                      numComputeShaderInvocations        |-> intermediateResults[11],
                      numGeometryPrimitivesGenerated     |-> intermediateResults[5],
                      numClippingInputPrimitives         |-> intermediateResults[6],
                      numClippingOutputPrimitives        |-> intermediateResults[7]]]

\* an AttachmentClear: flags, colorAttachment and a clear value
MakeAttachmentClear(flags, colorAttachment) ==
    [flags |-> flags, colorAttachment |-> colorAttachment,
     clearValue |-> [color |-> <<1, 0, colorAttachment, 1>>, depth |-> 1,
                     stencil |-> colorAttachment + 1]]

\* the members of dst that ClearAttachments writes for a depth-stencil entry:
\* clearValue.depthStencil.depth and .stencil only under their flag
ConvertDepthStencilClear(src) ==
    [aspectMask      |-> GetDepthStencilAspectMask(src.flags),
     colorAttachment |-> 0,
     clearValue      |-> [f \in (IF HasBit(src.flags, ClearFlags_Depth) THEN {"depth"} ELSE {})
                                \cup (IF HasBit(src.flags, ClearFlags_Stencil)
                                      THEN {"stencil"} ELSE {})
                            |-> src.clearValue[f]]]

ConvertColorClear(src) ==
    [aspectMask      |-> {"COLOR"},
     colorAttachment |-> src.colorAttachment,
     clearValue      |-> src.clearValue.color]

\* the loop of ClearAttachments over attachments[i .. n - 1] (0-based)
RECURSIVE ConvertClears(_, _, _, _, _)
ConvertClears(m, i, n, attachments, attachmentsVK) ==
    IF i < n
    THEN LET src == attachments[i + 1] IN
         IF HasBit(src.flags, ClearFlags_Color)
         THEN ConvertClears(m, i + 1, n, attachments,
                            Append(attachmentsVK, ConvertColorClear(src)))
         ELSE IF m.rec.hasDSVAttachment_
         THEN ConvertClears(m, i + 1, n, attachments,
                            Append(attachmentsVK, ConvertDepthStencilClear(src)))
         ELSE ConvertClears(m, i + 1, n, attachments, attachmentsVK)
    ELSE attachmentsVK

\* mutant: every entry of the list is converted
ClearAttachmentsM_NoLimit(m, numAttachments, attachments) ==
    ClearFramebufferAttachmentsM(m, ConvertClears(m, 0, numAttachments, attachments, <<>>))

ClearAttachmentsM(m, numAttachments, attachments) ==
    ClearFramebufferAttachmentsM(
        m, ConvertClears(m, 0, Min(numAttachments, g_maxNumAttachments), attachments, <<>>))

\* mutant: the depth-stencil entry is emitted without looking at hasDSVAttachment_
ClearM_NoDSVCheck(m, flags) ==
    LET numColor == IF HasBit(flags, ClearFlags_Color)
                    THEN Min(m.rec.numColorAttachments_, g_maxNumColorAttachments)
                    ELSE 0
        colors == [i \in 1 .. numColor |->
                      [aspectMask |-> {"COLOR"}, colorAttachment |-> i - 1,
                       clearValue |-> m.rec.clearColor_]]
        depthStencil ==
            IF HasBit(flags, ClearFlags_Depth) \/ HasBit(flags, ClearFlags_Stencil)
            THEN << [aspectMask |-> GetDepthStencilAspectMask(flags), colorAttachment |-> 0,
                     clearValue |-> m.rec.clearDepthStencil_] >>
            ELSE <<>>
    IN  ClearFramebufferAttachmentsM(m, colors \o depthStencil)

ClearM(m, flags) ==
    LET numColor == IF HasBit(flags, ClearFlags_Color)
                    THEN Min(m.rec.numColorAttachments_, g_maxNumColorAttachments)
                    ELSE 0
        colors == [i \in 1 .. numColor |->
                      [aspectMask |-> {"COLOR"}, colorAttachment |-> i - 1,
                       clearValue |-> m.rec.clearColor_]]
        depthStencil ==
            IF (HasBit(flags, ClearFlags_Depth) \/ HasBit(flags, ClearFlags_Stencil))
               /\ m.rec.hasDSVAttachment_
            THEN << [aspectMask |-> GetDepthStencilAspectMask(flags), colorAttachment |-> 0,
                     clearValue |-> m.rec.clearDepthStencil_] >>
            ELSE <<>>
    IN  ClearFramebufferAttachmentsM(m, colors \o depthStencil)

SetClearColorM(m, color) == [m EXCEPT !.rec.clearColor_ = color]

SetClearDepthM(m, depth) == [m EXCEPT !.rec.clearDepthStencil_.depth = depth]

SetClearStencilM(m, stencil) == [m EXCEPT !.rec.clearDepthStencil_.stencil = stencil]

-----------------------------------------------------------------------------
(* GLRenderTarget *)

\* an AttachmentDescriptor: its type and, when it has a texture, the internal
\* format glGetTexLevelParameteriv reports for that texture
Attachment(type, hasTexture, format) ==
    [type |-> type, hasTexture |-> hasTexture, format |-> format]

AttachmentKinds ==
    { Attachment("Color", TRUE, "GL_RGBA"),
      Attachment("Color", FALSE, "none"),
      Attachment("Depth", FALSE, "none"),
      Attachment("DepthStencil", FALSE, "none"),
      Attachment("Stencil", FALSE, "none"),
      Attachment("Depth", TRUE, "GL_DEPTH_COMPONENT"),
      Attachment("DepthStencil", TRUE, "GL_DEPTH_STENCIL"),
      Attachment("Depth", TRUE, "GL_RGBA"),
      Attachment("Color", TRUE, "GL_RG") }

\* attachments a descriptor repeats many times
RepeatedKinds ==
    { Attachment("Color", TRUE, "GL_RGBA"), Attachment("Depth", TRUE, "GL_RGBA") }

Repeat(a, k) == [i \in 1 .. k |-> a]

\* attachment lists: up to two attachments of any kind, then k times the same
AttachmentLists ==
    { p \o Repeat(a, k) :
        p \in {<<>>} \cup { <<x>> : x \in AttachmentKinds }
                     \cup { <<x, y>> : x \in AttachmentKinds, y \in AttachmentKinds },
        a \in RepeatedKinds,
        k \in (0 .. 1) \cup ((g_maxFramebufferAttachments - 1) .. MaxAttachments) }

\* RenderTargetDescriptor
Descriptors ==
    { [resolution |-> <<4, 4>>, samples |-> sm, customMultiSampling |-> cu,
       attachments |-> l] :
        sm \in {1, 4}, cu \in BOOLEAN, l \in AttachmentLists }

\* what the backend answers during one Bind: the completeness of the primary
\* and of the multi-sample framebuffer, whether ARB_framebuffer_no_attachments
\* is there, and whether a store past the end of internalFormats[] stops the
\* program
Backends ==
    [statusPrimary : {"complete", "incomplete"}, statusMS : {"complete", "incomplete"},
     noAttachmentsExt : BOOLEAN, crashOnOverrun : BOOLEAN]

ColorSlot(i) == [point |-> "GL_COLOR_ATTACHMENT0", index |-> i]

DepthSlot == [point |-> "GL_DEPTH_ATTACHMENT", index |-> 0]

StencilSlot == [point |-> "GL_STENCIL_ATTACHMENT", index |-> 0]

DepthStencilSlot == [point |-> "GL_DEPTH_STENCIL_ATTACHMENT", index |-> 0]

NoRenderTarget == [err |-> "unbound"]

\* the object under construction: its members, the framebuffer bound to
\* GL_FRAMEBUFFER, the local array internalFormats[], what is attached to the
\* two framebuffer objects, the GL calls made, and the exception thrown if any
NewRenderTarget(desc) ==
    [err               |-> "none",
     resolution        |-> desc.resolution,
     multiSamples_     |-> desc.samples,
     framebufferMS_    |-> FALSE,
     renderbuffer_     |-> FALSE,
     renderbuffersMS_  |-> <<>>,
     colorAttachments_ |-> <<>>,
     blitMask_         |-> {},
     bound             |-> "none",
     internalFormats   |-> [i \in 0 .. (g_maxFramebufferAttachments - 1) |-> "indeterminate"],
     attached          |-> <<>>,
     cmds              |-> <<>>]

Throw(g, e) == [g EXCEPT !.err = e]

Ok(g) == g.err = "none"

GL(g, c) == [g EXCEPT !.cmds = Append(@, c)]

BindFramebuffer(g, fbo) ==
    [GL(g, [cmd |-> "BindFramebuffer", target |-> "FRAMEBUFFER", fbo |-> fbo])
        EXCEPT !.bound = fbo]

\* an attachment to the framebuffer bound to GL_FRAMEBUFFER
Attach(g, attachment, source, format) ==
    [g EXCEPT !.attached = Append(@, [fbo |-> g.bound, attachment |-> attachment,
                                      source |-> source, format |-> format])]

\* mutant: a single sample counts as multi-sampling
HasMultiSampling_FromOne(g) == g.multiSamples_ >= 1

HasMultiSampling(g) == g.multiSamples_ > 1

HasDepthStencilAttachment(g) == g.blitMask_ \cap {"DEPTH", "STENCIL"} # {}

\* mutant: the multi-sample renderbuffers are counted as well
GetNumColorAttachments_WithRenderbuffers(g) ==
    Len(g.colorAttachments_) + Len(g.renderbuffersMS_)

GetNumColorAttachments(g) == Len(g.colorAttachments_)

HasDepthAttachment(g) == "DEPTH" \in g.blitMask_

HasStencilAttachment(g) == "STENCIL" \in g.blitMask_

NumColorAttachmentDescs(attachmentDescs) ==
    Cardinality({ i \in 1 .. Len(attachmentDescs) : attachmentDescs[i].type = "Color" })

\* mutant: the limit itself is rejected
CountColorAttachments_Strict(g, attachmentDescs) ==
    IF NumColorAttachmentDescs(attachmentDescs) >= g_maxFramebufferAttachments
    THEN Throw(g, "TooManyColorAttachments")
    ELSE g

CountColorAttachments(g, attachmentDescs) ==
    IF NumColorAttachmentDescs(attachmentDescs) > g_maxFramebufferAttachments
    THEN Throw(g, "TooManyColorAttachments")
    ELSE g

ValidateFramebufferStatus(g, status) ==
    IF status = "complete" THEN g ELSE Throw(g, "FramebufferIncomplete")

CreateAndAttachRenderbuffer(g, internalFormat, attachment) ==
    IF ~g.renderbuffer_
    THEN Attach([g EXCEPT !.renderbuffer_ = TRUE], attachment, "renderbuffer", internalFormat)
    ELSE Throw(g, "DepthAttachmentFailed")

\* blitMask_ |= bits once the callee returned
AddBlitBits(g, bits) == IF Ok(g) THEN [g EXCEPT !.blitMask_ = @ \cup bits] ELSE g

AttachDepthBuffer(g) ==
    AddBlitBits(CreateAndAttachRenderbuffer(g, "GL_DEPTH_COMPONENT", DepthSlot), {"DEPTH"})

AttachStencilBuffer(g) ==
    AddBlitBits(CreateAndAttachRenderbuffer(g, "GL_STENCIL_INDEX", StencilSlot), {"STENCIL"})

AttachDepthStencilBuffer(g) ==
    AddBlitBits(CreateAndAttachRenderbuffer(g, "GL_DEPTH_STENCIL", DepthStencilSlot),
                {"DEPTH", "STENCIL"})

RECURSIVE AttachAllDepthStencilBuffersFrom(_, _, _)
AttachAllDepthStencilBuffersFrom(g, attachmentDescs, i) ==
    IF i > Len(attachmentDescs) \/ ~Ok(g)
    THEN g
    ELSE LET d == attachmentDescs[i]
             g1 == IF d.hasTexture THEN g
                   ELSE CASE d.type = "Color" -> Throw(g, "ColorAttachmentWithoutTexture")
                          [] d.type = "Depth" -> AttachDepthBuffer(g)
                          [] d.type = "DepthStencil" -> AttachDepthStencilBuffer(g)
                          [] d.type = "Stencil" -> AttachStencilBuffer(g)
         IN  AttachAllDepthStencilBuffersFrom(g1, attachmentDescs, i + 1)

AttachAllDepthStencilBuffers(g, attachmentDescs) ==
    AttachAllDepthStencilBuffersFrom(g, attachmentDescs, 1)

\* mutant: the color slots are numbered from 1
MakeFramebufferAttachment_FromOne(g, internalFormat) ==
    IF internalFormat = "GL_DEPTH_COMPONENT"
    THEN IF ~HasDepthStencilAttachment(g)
         THEN [g |-> [g EXCEPT !.blitMask_ = @ \cup {"DEPTH"}], attachment |-> DepthSlot]
         ELSE [g |-> Throw(g, "DepthAttachmentFailed"), attachment |-> DepthSlot]
    ELSE IF internalFormat = "GL_DEPTH_STENCIL"
    THEN IF ~HasDepthStencilAttachment(g)
         THEN [g |-> [g EXCEPT !.blitMask_ = @ \cup {"DEPTH", "STENCIL"}],
               attachment |-> DepthStencilSlot]
         ELSE [g |-> Throw(g, "DepthAttachmentFailed"), attachment |-> DepthStencilSlot]
    ELSE LET attachment == ColorSlot(Len(g.colorAttachments_) + 1)
         IN  [g |-> [g EXCEPT !.blitMask_ = @ \cup {"COLOR"},
                              !.colorAttachments_ = Append(@, attachment)],
              attachment |-> attachment]

\* the attachment point for a texture of the given internal format; the
\* result is the object and, in attachment, the point returned
MakeFramebufferAttachment(g, internalFormat) ==
    IF internalFormat = "GL_DEPTH_COMPONENT"
    THEN IF ~HasDepthStencilAttachment(g)
         THEN [g |-> [g EXCEPT !.blitMask_ = @ \cup {"DEPTH"}], attachment |-> DepthSlot]
         ELSE [g |-> Throw(g, "DepthAttachmentFailed"), attachment |-> DepthSlot]
    ELSE IF internalFormat = "GL_DEPTH_STENCIL"
    THEN IF ~HasDepthStencilAttachment(g)
         THEN [g |-> [g EXCEPT !.blitMask_ = @ \cup {"DEPTH", "STENCIL"}],
               attachment |-> DepthStencilSlot]
         ELSE [g |-> Throw(g, "DepthAttachmentFailed"), attachment |-> DepthStencilSlot]
    ELSE LET attachment == ColorSlot(Len(g.colorAttachments_))
         IN  [g |-> [g EXCEPT !.blitMask_ = @ \cup {"COLOR"},
                              !.colorAttachments_ = Append(@, attachment)],
              attachment |-> attachment]

\* AttachTexture with internalFormat = internalFormats[index]; a store at an
\* index past the array is undefined: the program stops or goes on with the
\* array as it was
AttachTexture(g, attachmentDesc, index, backend) ==
    LET overrun == index >= g_maxFramebufferAttachments
        g1 == IF overrun
              THEN IF backend.crashOnOverrun THEN Throw(g, "crash") ELSE g
              ELSE [g EXCEPT !.internalFormats[index] = attachmentDesc.format]
        made == MakeFramebufferAttachment(g1, attachmentDesc.format)
    IN  IF ~Ok(g1) THEN g1
        ELSE IF ~Ok(made.g) THEN made.g
        ELSE Attach(made.g, made.attachment, "texture", attachmentDesc.format)

RECURSIVE AttachAllTexturesFrom(_, _, _, _, _)
AttachAllTexturesFrom(g, attachmentDescs, i, colorAttachmentIndex, backend) ==
    IF i > Len(attachmentDescs) \/ ~Ok(g)
    THEN g
    ELSE IF attachmentDescs[i].hasTexture
         THEN AttachAllTexturesFrom(
                  AttachTexture(g, attachmentDescs[i], colorAttachmentIndex, backend),
                  attachmentDescs, i + 1, colorAttachmentIndex + 1, backend)
         ELSE AttachAllTexturesFrom(g, attachmentDescs, i + 1, colorAttachmentIndex, backend)

AttachAllTextures(g, attachmentDescs, backend) ==
    AttachAllTexturesFrom(g, attachmentDescs, 1, 0, backend)

SetDrawBuffers(g) ==
    IF Len(g.colorAttachments_) = 0
    THEN GL(g, [cmd |-> "glDrawBuffer", buffers |-> << "GL_NONE" >>])
    ELSE IF Len(g.colorAttachments_) = 1
    THEN GL(g, [cmd |-> "glDrawBuffer", buffers |-> << g.colorAttachments_[1] >>])
    ELSE GL(g, [cmd |-> "glDrawBuffers", buffers |-> g.colorAttachments_])

CreateRenderbufferMS(g, attachment, internalFormat) ==
    [Attach(g, attachment, "renderbuffer", internalFormat)
        EXCEPT !.renderbuffersMS_ =
                  Append(@, [attachment |-> attachment, internalFormat |-> internalFormat])]

\* internalFormats[i], indeterminate past the end of the array
ReadInternalFormat(g, i) ==
    IF i < g_maxFramebufferAttachments THEN g.internalFormats[i] ELSE "indeterminate"

RECURSIVE CreateRenderbuffersMSFrom(_, _)
CreateRenderbuffersMSFrom(g, i) ==
    IF i >= Len(g.colorAttachments_)
    THEN g
    ELSE CreateRenderbuffersMSFrom(
             CreateRenderbufferMS(g, g.colorAttachments_[i + 1], ReadInternalFormat(g, i)),
             i + 1)

CreateRenderbuffersMS(g, backend) ==
    ValidateFramebufferStatus(SetDrawBuffers(CreateRenderbuffersMSFrom(g, 0)),
                              backend.statusMS)

\* the exception of a callee ends the caller
Then(g, h) == IF Ok(g) THEN h ELSE g

CreateFramebufferWithAttachments(g, desc, backend) ==
    LET g1 == IF HasMultiSampling(g) /\ ~desc.customMultiSampling
              THEN [g EXCEPT !.framebufferMS_ = TRUE] ELSE g
        g2 == CountColorAttachments(g1, desc.attachments)
        g3 == BindFramebuffer(g2, "primary")
        g4 == IF g3.framebufferMS_
              THEN AttachAllTextures(g3, desc.attachments, backend)
              ELSE LET a == AttachAllDepthStencilBuffers(g3, desc.attachments)
                       b == Then(a, AttachAllTextures(a, desc.attachments, backend))
                   IN  Then(b, SetDrawBuffers(b))
        g5 == Then(g4, ValidateFramebufferStatus(g4, backend.statusPrimary))
        g6 == BindFramebuffer(g5, "ms")
        g7 == AttachAllDepthStencilBuffers(g6, desc.attachments)
        g8 == Then(g7, CreateRenderbuffersMS(g7, backend))
    IN  IF ~Ok(g2) THEN g2
        ELSE IF ~Ok(g5) THEN g5
        ELSE IF g5.framebufferMS_ THEN g8
        ELSE g5

CreateFramebufferWithNoAttachments(g, desc, backend) ==
    LET g1 == IF backend.noAttachmentsExt
              THEN GL(g, [cmd |-> "FramebufferParameters", width |-> desc.resolution[1],
                          height |-> desc.resolution[2], layers |-> 1,
                          samples |-> g.multiSamples_, fixedSampleLocations |-> 0])
              ELSE LET b == BindFramebuffer(g, "primary")
                   IN  [b EXCEPT !.renderbuffer_ = TRUE,
                                 !.attached = Append(@, [fbo |-> "primary",
                                                         attachment |-> ColorSlot(0),
                                                         source |-> "renderbuffer",
                                                         format |-> "GL_RED"])]
    IN  ValidateFramebufferStatus(g1, backend.statusPrimary)

\* the body of GLRenderTarget::GLRenderTarget on the initialized members g
ConstructFrom(g, desc, backend) ==
    IF Len(desc.attachments) = 0
    THEN CreateFramebufferWithNoAttachments(g, desc, backend)
    ELSE CreateFramebufferWithAttachments(g, desc, backend)

\* GLRenderTarget::GLRenderTarget
Construct(desc, backend) == ConstructFrom(NewRenderTarget(desc), desc, backend)

\* mutant: the color slot list and the blit mask are shared between objects
MemberInitializers_Shared(desc, other) ==
    [NewRenderTarget(desc) EXCEPT !.colorAttachments_ = other.colorAttachments_,
                                  !.blitMask_ = other.blitMask_]

\* the members of a second object at the start of its constructor, while the
\* object other exists: every object has its own members
MemberInitializers(desc, other) == NewRenderTarget(desc)

\* the members of a constructed object
Members(g) ==
    [err               |-> "none",
     resolution        |-> g.resolution,
     multiSamples_     |-> g.multiSamples_,
     framebufferMS_    |-> g.framebufferMS_,
     renderbuffer_     |-> g.renderbuffer_,
     renderbuffersMS_  |-> g.renderbuffersMS_,
     colorAttachments_ |-> g.colorAttachments_,
     blitMask_         |-> g.blitMask_,
     attached          |-> g.attached]

\* mutant: the object under construction is handed out whatever happened
Constructed_Always(g) == Members(g)

\* what the caller holds after the constructor: the object, or only the
\* exception that left the constructor
Constructed(g) == IF Ok(g) THEN Members(g) ELSE [err |-> g.err]

\* GLFramebuffer::Blit over the whole resolution
BlitFramebuffer(g) ==
    GL(g, [cmd |-> "Blit", width |-> g.resolution[1], height |-> g.resolution[2],
           mask |-> g.blitMask_])

RECURSIVE BlitEachAttachment(_, _)
BlitEachAttachment(g, i) ==
    IF i > Len(g.colorAttachments_)
    THEN g
    ELSE BlitEachAttachment(
             BlitFramebuffer(GL(GL(g, [cmd |-> "glReadBuffer", buffer |-> g.colorAttachments_[i]]),
                                [cmd |-> "glDrawBuffer", buffers |-> << g.colorAttachments_[i] >>])),
             i + 1)

\* mutant: the blit runs whenever there is a color attachment
BlitOntoFramebufferG_AnyTarget(g) ==
    IF Len(g.colorAttachments_) # 0
    THEN LET g1 == GL(g, [cmd |-> "Bind", target |-> "DRAW_FRAMEBUFFER", fbo |-> "primary"])
             g2 == GL(g1, [cmd |-> "Bind", target |-> "READ_FRAMEBUFFER", fbo |-> "ms"])
             g3 == BlitEachAttachment(g2, 1)
             g4 == GL(g3, [cmd |-> "Unbind", target |-> "READ_FRAMEBUFFER", fbo |-> "ms"])
         IN  GL(g4, [cmd |-> "Unbind", target |-> "DRAW_FRAMEBUFFER", fbo |-> "primary"])
    ELSE g

BlitOntoFramebufferG(g) ==
    IF g.framebufferMS_ /\ Len(g.colorAttachments_) # 0
    THEN LET g1 == GL(g, [cmd |-> "Bind", target |-> "DRAW_FRAMEBUFFER", fbo |-> "primary"])
             g2 == GL(g1, [cmd |-> "Bind", target |-> "READ_FRAMEBUFFER", fbo |-> "ms"])
             g3 == BlitEachAttachment(g2, 1)
             g4 == GL(g3, [cmd |-> "Unbind", target |-> "READ_FRAMEBUFFER", fbo |-> "ms"])
         IN  GL(g4, [cmd |-> "Unbind", target |-> "DRAW_FRAMEBUFFER", fbo |-> "primary"])
    ELSE g

GetFramebuffer(g) == IF g.framebufferMS_ THEN "ms" ELSE "primary"

\* mutant: the blit onto the screen only runs for a multi-sample framebuffer
BlitOntoScreenG_OnlyMS(g, colorAttachmentIndex) ==
    IF g.framebufferMS_ /\ colorAttachmentIndex < Len(g.colorAttachments_)
    THEN LET g1 == GL(g, [cmd |-> "BindFramebuffer", target |-> "DRAW_FRAMEBUFFER",
                          fbo |-> "screen"])
             g2 == GL(g1, [cmd |-> "BindFramebuffer", target |-> "READ_FRAMEBUFFER",
                           fbo |-> "ms"])
             g3 == GL(g2, [cmd |-> "glReadBuffer",
                           buffer |-> g.colorAttachments_[colorAttachmentIndex + 1]])
             g4 == GL(g3, [cmd |-> "glDrawBuffer", buffers |-> << "GL_BACK" >>])
             g5 == BlitFramebuffer(g4)
         IN  GL(g5, [cmd |-> "BindFramebuffer", target |-> "READ_FRAMEBUFFER",
                     fbo |-> "screen"])
    ELSE g

BlitOntoScreenG(g, colorAttachmentIndex) ==
    IF colorAttachmentIndex < Len(g.colorAttachments_)
    THEN LET g1 == GL(g, [cmd |-> "BindFramebuffer", target |-> "DRAW_FRAMEBUFFER",
                          fbo |-> "screen"])
             g2 == GL(g1, [cmd |-> "BindFramebuffer", target |-> "READ_FRAMEBUFFER",
                           fbo |-> GetFramebuffer(g)])
             g3 == GL(g2, [cmd |-> "glReadBuffer",
                           buffer |-> g.colorAttachments_[colorAttachmentIndex + 1]])
             g4 == GL(g3, [cmd |-> "glDrawBuffer", buffers |-> << "GL_BACK" >>])
             g5 == BlitFramebuffer(g4)
         IN  GL(g5, [cmd |-> "BindFramebuffer", target |-> "READ_FRAMEBUFFER",
                     fbo |-> "screen"])
    ELSE g

-----------------------------------------------------------------------------
(* The state after construction: CreateCommandBuffers, CreateRecordingFences *)

\* CreateRecordingFences: every fence is created unsignaled and handed to
\* vkQueueSubmit with an empty submission
RecordingFences_NoSubmit == [i \in Slots |-> "unsignaled"]

RecordingFences == [i \in Slots |-> "pending"]

InitRec ==
    [commandBuffer_           |-> 0,
     commandBufferActiveIt_   |-> EndIt,
     commandBufferActiveList_ |-> [i \in Slots |-> FALSE],
     recordingFence_          |-> 0,
     renderPass_              |-> VK_NULL_HANDLE,
     framebuffer_             |-> VK_NULL_HANDLE,
     framebufferExtent_       |-> <<0, 0>>,
     scissorEnabled_          |-> FALSE,
     scissorRectInvalidated_  |-> TRUE,
     numColorAttachments_     |-> 0,
     hasDSVAttachment_        |-> FALSE,
     clearColor_              |-> <<0, 0, 0, 0>>,
     clearDepthStencil_       |-> [depth |-> 1, stencil |-> 0]]

Init ==
    /\ rec = InitRec
    /\ cmdBuf = [i \in Slots |-> FreshCmdBuf]
    /\ fence = RecordingFences
    /\ ctx = [presentCommandBuffer |-> FALSE]
    /\ rt = NoRenderTarget
    /\ call = [op |-> "Construct", cmds |-> <<>>]

\* a handler ran to completion on the machine
Ran(m, op) ==
    /\ rec' = m.rec
    /\ cmdBuf' = m.cmdBuf
    /\ fence' = m.fence
    /\ call' = op @@ [cmds |-> m.cmds]

-----------------------------------------------------------------------------
(* Actions *)

SetPresentIndex ==
    \E idx \in Slots :
        /\ Ran(SetPresentIndexM(Machine, idx), [op |-> "SetPresentIndex", idx |-> idx])
        /\ UNCHANGED <<ctx, rt>>

BeginCommandBuffer ==
    /\ FenceWaitReturns(Machine)
    /\ Ran(BeginCommandBufferM(Machine), [op |-> "BeginCommandBuffer"])
    /\ UNCHANGED <<ctx, rt>>

EndCommandBuffer ==
    /\ Ran(EndCommandBufferM(Machine), [op |-> "EndCommandBuffer"])
    /\ UNCHANGED <<ctx, rt>>

SetRenderPass ==
    \E a \in RenderPassArgs :
        /\ Ran(SetRenderPassM(Machine, a.renderPass, a.framebuffer, a.extent),
               [op |-> "SetRenderPass", arg |-> a])
        /\ UNCHANGED <<ctx, rt>>

SetRenderPassNull ==
    /\ Ran(SetRenderPassNullM(Machine), [op |-> "SetRenderPassNull"])
    /\ UNCHANGED <<ctx, rt>>

\* what a SetRenderTarget call found on entry
Entry(m, active) == [renderPass_ |-> m.rec.renderPass_, active |-> active]

\* SetRenderTarget(RenderTarget&) with a target of the set T; the call blocks in
\* vkWaitForFences when it has to begin recording
SetRenderTargetOf(T) ==
    \E t \in T, ub \in BOOLEAN :
        /\ Machine.rec.commandBufferActiveIt_ # EndIt => ub = FALSE
        /\ IsCommandBufferActive(Machine, ub) \/ FenceWaitReturns(Machine)
        /\ Ran(SetRenderTargetM(Machine, t, ub),
               [op |-> "SetRenderTarget", arg |-> t,
                entry |-> Entry(Machine, IsCommandBufferActive(Machine, ub))])
        /\ UNCHANGED <<ctx, rt>>

SetRenderTarget == SetRenderTargetOf(RenderTargets)

\* SetRenderTarget(RenderContext&); idx is the context's presentation index
SetRenderTargetContext ==
    \E sc \in SwapChains, idx \in Slots :
        LET m0 == SetPresentCommandBufferM(Machine, idx) IN
        /\ IsCommandBufferActive(m0, FALSE) \/ FenceWaitReturns(m0)
        /\ Ran(SetRenderContextM(Machine, sc, idx, FALSE),
               [op |-> "SetRenderTargetContext", arg |-> sc, idx |-> idx,
                entry |-> Entry(m0, IsCommandBufferActive(m0, FALSE))])
        /\ ctx' = [presentCommandBuffer |-> TRUE]
        /\ UNCHANGED rt

SetGraphicsPipeline ==
    \E p \in Pipelines :
        /\ Ran(SetGraphicsPipelineM(Machine, p), [op |-> "SetGraphicsPipeline", arg |-> p])
        /\ UNCHANGED <<ctx, rt>>

SetScissor ==
    \E s \in Scissors :
        /\ Ran(SetScissorM(Machine, s), [op |-> "SetScissor", arg |-> s])
        /\ UNCHANGED <<ctx, rt>>

SetScissorsOf(L) ==
    \E l \in L :
        /\ Ran(SetScissorsM(Machine, Len(l), l), [op |-> "SetScissors", arg |-> l])
        /\ UNCHANGED <<ctx, rt>>

SetScissors == SetScissorsOf(ScissorLists)

SetScissorsLong ==
    SetScissorsOf({ ScissorList(n, seed) : n \in 0 .. MaxViewports, seed \in 1 .. MaxSeed })

SetViewports ==
    \E n \in 0 .. MaxViewports, seed \in 1 .. MaxSeed :
        /\ Ran(SetViewportsM(Machine, n, ViewportList(n, seed)),
               [op |-> "SetViewports", arg |-> ViewportList(n, seed)])
        /\ UNCHANGED <<ctx, rt>>

\* render targets with few color attachments and with about
\* g_maxNumColorAttachments of them, with and without depth and stencil
ClearTargets ==
    { MakeTarget(1, <<4, 4>>, k, d, s) :
        k \in (0 .. 3) \cup ((g_maxNumColorAttachments - 1) .. MaxColorAttachments),
        d \in BOOLEAN, s \in BOOLEAN }

SetRenderTargetAny == SetRenderTargetOf(ClearTargets)

Clear ==
    \E flags \in 0 .. 7 :
        /\ Ran(ClearM(Machine, flags), [op |-> "Clear", flags |-> flags])
        /\ UNCHANGED <<ctx, rt>>

\* the lists ClearAttachments is called with: every list of up to two clear
\* commands, and long lists whose i-th command has colorAttachment i
AttachmentClears ==
    { MakeAttachmentClear(flags, 5) : flags \in 0 .. 7 }

AttachmentClearLists ==
    {<<>>} \cup { <<a>> : a \in AttachmentClears }
           \cup { <<a, b>> : a \in AttachmentClears, b \in AttachmentClears }
           \cup { [i \in 1 .. n |-> MakeAttachmentClear((i + seed) % 8, i - 1)] :
                    n \in (g_maxNumAttachments - 1) .. MaxClearEntries, seed \in 0 .. MaxSeed }

ClearAttachments ==
    \E l \in AttachmentClearLists :
        /\ Ran(ClearAttachmentsM(Machine, Len(l), l), [op |-> "ClearAttachments", arg |-> l])
        /\ UNCHANGED <<ctx, rt>>

\* the values the query pool delivers: 11 counters
QueryData == { [i \in 1 .. 11 |-> base + i] : base \in {0, 100} }

QueryResult ==
    \E stateResult \in QueryPollAnswers, data \in QueryData :
        LET r == QueryResultM(Machine, stateResult, data) IN
        /\ Ran(r.m, [op |-> "QueryResult", answer |-> stateResult, data |-> data,
                     ret |-> r.ret, result |-> r.result])
        /\ UNCHANGED <<ctx, rt>>

QueryPipelineStatisticsResult ==
    \E stateResult \in QueryPollAnswers, data \in QueryData :
        LET r == QueryPipelineStatisticsResultM(Machine, stateResult, data) IN
        /\ Ran(r.m, [op |-> "QueryPipelineStatisticsResult", answer |-> stateResult,
                     data |-> data, ret |-> r.ret, result |-> r.result])
        /\ UNCHANGED <<ctx, rt>>

SetClearColor ==
    \E c \in { <<0, 0, 0, 0>>, <<1, 0, 0, 1>> } :
        /\ Ran(SetClearColorM(Machine, c), [op |-> "SetClearColor"])
        /\ UNCHANGED <<ctx, rt>>

SetClearDepth ==
    \E d \in { 0, 1 } :
        /\ Ran(SetClearDepthM(Machine, d), [op |-> "SetClearDepth"])
        /\ UNCHANGED <<ctx, rt>>

SetClearStencil ==
    \E st \in { 0, 1 } :
        /\ Ran(SetClearStencilM(Machine, st), [op |-> "SetClearStencil"])
        /\ UNCHANGED <<ctx, rt>>

\* Bind: a GLRenderTarget is constructed from a descriptor; a constructor that
\* throws leaves no object, only the exception, until the caller has handled it
Bind ==
    /\ rt = NoRenderTarget
    /\ \E desc \in Descriptors, backend \in Backends :
        LET g == Construct(desc, backend) IN
        /\ rt' = Constructed(g)
        /\ call' = [op |-> "Bind", arg |-> desc, backend |-> backend,
                    result |-> g.err, cmds |-> g.cmds]
        /\ UNCHANGED <<rec, cmdBuf, fence, ctx>>

\* a second GLRenderTarget is constructed from the descriptor of the first,
\* with the same answers of the backend; what a store past internalFormats[]
\* does is open again
BindAgain ==
    /\ call.op = "Bind"
    /\ call.result = "none"
    /\ \E crash \in BOOLEAN :
        LET backend == [call.backend EXCEPT !.crashOnOverrun = crash]
            g == ConstructFrom(MemberInitializers(call.arg, rt), call.arg, backend)
        IN  /\ rt' = Constructed(g)
            /\ call' = [op |-> "BindAgain", arg |-> call.arg, backend |-> backend,
                        result |-> g.err, first |-> rt, cmds |-> g.cmds]
            /\ UNCHANGED <<rec, cmdBuf, fence, ctx>>

\* the render target is destroyed with its owner, or the exception handled
Release ==
    /\ rt # NoRenderTarget
    /\ rt' = NoRenderTarget
    /\ call' = [op |-> "Release", cmds |-> <<>>]
    /\ UNCHANGED <<rec, cmdBuf, fence, ctx>>

BlitOntoFramebuffer ==
    /\ rt.err = "none"
    /\ call' = [op |-> "BlitOntoFramebuffer",
                cmds |-> BlitOntoFramebufferG(rt @@ [cmds |-> <<>>]).cmds]
    /\ UNCHANGED <<rec, cmdBuf, fence, ctx, rt>>

BlitOntoScreen ==
    \E colorAttachmentIndex \in 0 .. MaxSlotIndex :
        /\ rt.err = "none"
        /\ call' = [op |-> "BlitOntoScreen", idx |-> colorAttachmentIndex,
                    cmds |-> BlitOntoScreenG(rt @@ [cmds |-> <<>>], colorAttachmentIndex).cmds]
        /\ UNCHANGED <<rec, cmdBuf, fence, ctx, rt>>

\* CommandQueue::Submit(commandBuffer): the recorded buffer of the current slot
\* is submitted with the slot's fence
QueueSubmit ==
    /\ cmdBuf[rec.commandBuffer_].state = "executable"
    /\ fence[rec.recordingFence_] = "unsignaled"
    /\ fence' = [fence EXCEPT ![rec.recordingFence_] = "pending"]
    /\ call' = [op |-> "QueueSubmit", cmds |-> <<>>]
    /\ UNCHANGED <<rec, cmdBuf, ctx, rt>>

\* the queue completes the work a fence was submitted with
GpuCompleteOf(i) ==
    /\ fence[i] = "pending"
    /\ fence' = [fence EXCEPT ![i] = "signaled"]
    /\ call' = [op |-> "GpuComplete", cmds |-> <<>>]
    /\ UNCHANGED <<rec, cmdBuf, ctx, rt>>

GpuComplete == \E i \in Slots : GpuCompleteOf(i)

-----------------------------------------------------------------------------
(* Specifications *)

\* the recording life cycle
Next ==
    \/ SetPresentIndex
    \/ BeginCommandBuffer
    \/ EndCommandBuffer
    \/ SetRenderPass
    \/ SetRenderPassNull
    \/ SetRenderTarget
    \/ SetRenderTargetContext
    \/ QueueSubmit
    \/ GpuComplete

Spec == Init /\ [][Next]_vars

\* pipeline and scissor state inside render passes
NextScissor ==
    \/ SetRenderTarget
    \/ SetRenderTargetContext
    \/ SetGraphicsPipeline
    \/ SetScissor
    \/ SetScissors
    \/ GpuComplete

SpecScissor == Init /\ [][NextScissor]_vars

\* batched viewport and scissor updates
NextBatch ==
    \/ SetViewports
    \/ SetScissorsLong
    \/ SetGraphicsPipeline

SpecBatch == Init /\ [][NextBatch]_vars

\* clearing the attachments of the bound target
NextClear ==
    \/ SetRenderTargetAny
    \/ SetClearColor
    \/ SetClearDepth
    \/ SetClearStencil
    \/ Clear
    \/ GpuComplete

SpecClear == Init /\ [][NextClear]_vars

\* clearing with explicit clear commands
NextClearAttachments ==
    \/ SetRenderTarget
    \/ ClearAttachments
    \/ GpuComplete

SpecClearAttachments == Init /\ [][NextClearAttachments]_vars

\* polling query results while recording
NextQuery ==
    \/ SetPresentIndex
    \/ BeginCommandBuffer
    \/ EndCommandBuffer
    \/ QueryResult
    \/ QueryPipelineStatisticsResult
    \/ GpuComplete

SpecQuery == Init /\ [][NextQuery]_vars

\* recording without any submission of a command buffer; the queue eventually
\* completes what was submitted to it
NextFence ==
    \/ SetPresentIndex
    \/ BeginCommandBuffer
    \/ EndCommandBuffer
    \/ SetRenderPass
    \/ SetRenderPassNull
    \/ GpuComplete

SpecFence ==
    Init /\ [][NextFence]_vars /\ \A i \in Slots : WF_vars(GpuCompleteOf(i))

\* binding and resolving OpenGL render targets
NextBind ==
    \/ Bind
    \/ Release
    \/ BlitOntoFramebuffer
    \/ BlitOntoScreen

SpecBind == Init /\ [][NextBind]_vars

\* binding the same descriptor twice
NextBindAgain ==
    \/ Bind
    \/ BindAgain

SpecBindAgain == Init /\ [][NextBindAgain]_vars

-----------------------------------------------------------------------------
(* Properties of the command recorder *)

\* how many native calls named cmd the sequence c holds
Count(c, cmd) == Cardinality({ i \in 1 .. Len(c) : c[i].cmd = cmd })

\* the positions of the native calls named cmd in c
Positions(c, cmd) == { i \in 1 .. Len(c) : c[i].cmd = cmd }

SetRenderTargetOps == { "SetRenderTarget", "SetRenderTargetContext" }

\* C1: whichever call opens the native recording scope of a slot
\* (vkBeginCommandBuffer) does so in a step that starts with the slot's fence
\* signaled, ends with it reset, and waits for and resets that fence right
\* before the native begin.
C1_FenceSignaledBeforeRecording ==
    [][ \A i \in 1 .. Len(call'.cmds) :
            call'.cmds[i].cmd = "vkBeginCommandBuffer" =>
                LET s == call'.cmds[i].cb IN
                /\ fence[s] = "signaled"
                /\ fence'[s] = "unsignaled"
                /\ i > 2
                /\ call'.cmds[i - 2] = [cmd |-> "vkWaitForFences", fence |-> s]
                /\ call'.cmds[i - 1] = [cmd |-> "vkResetFences", fence |-> s]
      ]_vars

\* C1 witness: BeginCommandBuffer opened recording on the current slot and
\* left the slot's fence reset.
C1_Witness ==
    /\ call.op = "BeginCommandBuffer"
    /\ Count(call.cmds, "vkBeginCommandBuffer") = 1
    /\ cmdBuf[rec.commandBuffer_].state = "recording"
    /\ fence[rec.recordingFence_] = "unsignaled"

\* C2: in every slot's recording, begin-render-pass and end-render-pass
\* commands alternate starting with a begin (the native command buffer never
\* sees a nested begin or an unmatched end).
C2_RenderPassesAlternate ==
    \A s \in Slots : cmdBuf[s].pass # "invalid"

\* C9: SetRenderTarget called while a render pass is active records exactly
\* one end-render-pass directly followed by exactly one begin-render-pass of
\* the new target, and leaves the active pass, framebuffer and extent of the
\* new target with the scissor rectangle invalidated.
C9_EndBeforeBegin ==
    [][ (call'.op \in SetRenderTargetOps /\ rec.renderPass_ # VK_NULL_HANDLE) =>
            LET c == call'.cmds
                n == Len(c)
                t == call'.arg
            IN  /\ n >= 2
                /\ Count(c, "vkCmdEndRenderPass") = 1
                /\ Count(c, "vkCmdBeginRenderPass") = 1
                /\ c[n - 1] = [cmd |-> "vkCmdEndRenderPass", cb |-> rec'.commandBuffer_]
                /\ c[n] = [cmd |-> "vkCmdBeginRenderPass", renderPass |-> t.renderPass,
                           framebuffer |-> t.framebuffer, extent |-> t.extent,
                           cb |-> rec'.commandBuffer_]
                /\ rec'.renderPass_ = t.renderPass
                /\ rec'.framebuffer_ = t.framebuffer
                /\ rec'.framebufferExtent_ = t.extent
                /\ rec'.scissorRectInvalidated_
      ]_vars

\* C9 witness: SetRenderTarget was called with the target whose render pass
\* was already active, and recorded an end followed by a begin.
C9_Witness ==
    /\ call.op = "SetRenderTarget"
    /\ call.entry.renderPass_ = call.arg.renderPass
    /\ Len(call.cmds) = 2
    /\ call.cmds[1].cmd = "vkCmdEndRenderPass"
    /\ call.cmds[2].cmd = "vkCmdBeginRenderPass"

\* the slot SetRenderTarget works on: the one the context selects, or the
\* current one
TargetSlot(r, c) == IF c.op = "SetRenderTargetContext" THEN c.idx ELSE r.commandBuffer_

\* the native calls of BeginCommandBuffer on slot s
BeginSequence(s) ==
    << [cmd |-> "vkWaitForFences", fence |-> s],
       [cmd |-> "vkResetFences", fence |-> s],
       [cmd |-> "vkBeginCommandBuffer", cb |-> s] >>

\* what C10 asks of one SetRenderTarget step on slot s whose is-active flag
\* was active when the call was made
LazyBegin(c, s, active) ==
    IF active
    THEN /\ Count(c, "vkWaitForFences") = 0
         /\ Count(c, "vkResetFences") = 0
         /\ Count(c, "vkBeginCommandBuffer") = 0
    ELSE /\ Len(c) >= 4
         /\ SubSeq(c, 1, 3) = BeginSequence(s)
         /\ Count(c, "vkBeginCommandBuffer") = 1
         /\ Count(c, "vkWaitForFences") = 1
         /\ Count(c, "vkResetFences") = 1
         /\ \A i \in Positions(c, "vkCmdBeginRenderPass") : i > 3

\* C10: SetRenderTarget on a slot that is not recording begins recording
\* exactly once, before the render pass begins; on a slot that is recording it
\* begins nothing (no fence wait, no fence reset, no native begin).
C10_LazyBeginRecording ==
    [][ call'.op \in SetRenderTargetOps =>
            LET s == TargetSlot(rec, call')
            IN  LazyBegin(call'.cmds, s, rec.commandBufferActiveList_[s])
      ]_vars

\* C10, for the calls made once SetPresentIndex selected a slot: the same
\* statement holds wherever commandBufferActiveIt_ refers to a slot.
C10_LazyBeginAfterSelection ==
    [][ (call'.op \in SetRenderTargetOps
         /\ (call'.op = "SetRenderTarget" => rec.commandBufferActiveIt_ # EndIt)) =>
            LET s == TargetSlot(rec, call')
            IN  LazyBegin(call'.cmds, s, rec.commandBufferActiveList_[s])
      ]_vars

\* C3: SetViewports with n entries issues exactly ceil(n / 16) native calls,
\* the j-th with first index 16 * j and the entries [16 * j, min(16 * (j + 1), n))
\* converted in input order.
C3_ViewportBatches ==
    call.op = "SetViewports" =>
        LET n == Len(call.arg)
            c == call.cmds
        IN  /\ Len(c) = (n + g_maxNumViewportsPerBatch - 1) \div g_maxNumViewportsPerBatch
            /\ \A j \in 1 .. Len(c) :
                    LET first == g_maxNumViewportsPerBatch * (j - 1)
                        count == Min(g_maxNumViewportsPerBatch, n - first)
                    IN  /\ c[j].cmd = "vkCmdSetViewport"
                        /\ c[j].first = first
                        /\ c[j].count = count
                        /\ c[j].viewports =
                               [k \in 1 .. count |-> ConvertViewport(call.arg[first + k])]

\* C4: right after a pipeline with scissor test disabled and dynamic scissor
\* state was bound inside a render pass, the scissor rectangle of the current
\* command buffer is the full extent of the render pass at offset (0, 0).
C4_DisabledScissorIsFullExtent ==
    ( /\ call.op = "SetGraphicsPipeline"
      /\ ~call.arg.scissorEnabled
      /\ call.arg.dynamicScissor
      /\ rec.renderPass_ # VK_NULL_HANDLE
      /\ cmdBuf[rec.commandBuffer_].state = "recording"
      /\ cmdBuf[rec.commandBuffer_].pass = "inside" )
    => cmdBuf[rec.commandBuffer_].scissor = Rect(<<0, 0>>, rec.framebufferExtent_)

\* the clear entries C5 expects of Clear(flags) on a target with k color
\* attachments that has (hasDS) or lacks a depth or stencil attachment
ExpectedClear(flags, k, hasDS) ==
    LET nColor == IF HasBit(flags, ClearFlags_Color) THEN Min(k, g_maxNumColorAttachments) ELSE 0
        nDS == IF (HasBit(flags, ClearFlags_Depth) \/ HasBit(flags, ClearFlags_Stencil)) /\ hasDS
               THEN 1 ELSE 0
    IN  [nColor |-> nColor, nDS |-> nDS]

\* C5: SetRenderTarget stores the attachment count and the depth-or-stencil
\* flag of the target it bound; Clear(flags) then hands over one list with
\* min(k, 32) color entries (indices 0 .. min(k, 32) - 1 ascending, each with
\* the cached clear color) iff Color is set, followed by one depth-stencil
\* entry iff Depth or Stencil is set and the target has such an attachment;
\* the list is submitted in a single native call (none when it is empty).
C5_ClearEntries ==
    /\ call.op = "SetRenderTarget" =>
           /\ rec.numColorAttachments_ = call.arg.numColorAttachments
           /\ rec.hasDSVAttachment_ = (call.arg.hasDepth \/ call.arg.hasStencil)
    /\ call.op = "Clear" =>
           LET e == ExpectedClear(call.flags, rec.numColorAttachments_,
                                  rec.hasDSVAttachment_)
               total == e.nColor + e.nDS
           IN  IF total = 0
               THEN call.cmds = <<>>
               ELSE /\ Len(call.cmds) = 1
                    /\ call.cmds[1].cmd = "vkCmdClearAttachments"
                    /\ LET a == call.cmds[1].attachments IN
                        /\ Len(a) = total
                        /\ \A i \in 1 .. e.nColor :
                               /\ a[i].aspectMask = {"COLOR"}
                               /\ a[i].colorAttachment = i - 1
                               /\ a[i].clearValue = rec.clearColor_
                        /\ \A i \in (e.nColor + 1) .. total :
                               /\ a[i].aspectMask \subseteq {"DEPTH", "STENCIL"}
                               /\ a[i].clearValue = rec.clearDepthStencil_

\* C5 witness: Clear(Color | Depth) on a bound target with 3 color attachments
\* and a depth attachment submitted 4 entries.
C5_Witness ==
    /\ call.op = "Clear"
    /\ call.flags = ClearFlags_Color + ClearFlags_Depth
    /\ rec.renderPass_ # VK_NULL_HANDLE
    /\ rec.numColorAttachments_ = 3
    /\ rec.hasDSVAttachment_
    /\ Len(call.cmds) = 1
    /\ Len(call.cmds[1].attachments) = 4

\* the depth-or-stencil-class attachments a render target carries, on either
\* of its framebuffers
DepthStencilClass(r) ==
    { i \in 1 .. Len(r.attached) : r.attached[i].attachment.point # "GL_COLOR_ATTACHMENT0" }

\* C6: every render target that Bind returns successfully carries at most one
\* depth-or-stencil-class attachment; a descriptor that would yield two of them
\* fails, in the single-sample and in the multi-sample path.
C6_AtMostOneDepthStencil ==
    rt.err = "none" => Cardinality(DepthStencilClass(rt)) <= 1

\* C7: every render target that Bind returns successfully has
\* GetNumColorAttachments() <= 32, counting the attachments that were assigned
\* a color slot during binding.
C7_ColorAttachmentsBounded ==
    rt.err = "none" => GetNumColorAttachments(rt) <= g_maxFramebufferAttachments

\* the calls of a blit of color attachment idx from framebuffer fbo onto the
\* back buffer
ScreenBlit(r, fbo, idx) ==
    << [cmd |-> "BindFramebuffer", target |-> "DRAW_FRAMEBUFFER", fbo |-> "screen"],
       [cmd |-> "BindFramebuffer", target |-> "READ_FRAMEBUFFER", fbo |-> fbo],
       [cmd |-> "glReadBuffer", buffer |-> ColorSlot(idx)],
       [cmd |-> "glDrawBuffer", buffers |-> << "GL_BACK" >>],
       [cmd |-> "Blit", width |-> r.resolution[1], height |-> r.resolution[2],
        mask |-> r.blitMask_],
       [cmd |-> "BindFramebuffer", target |-> "READ_FRAMEBUFFER", fbo |-> "screen"] >>

C11_EndWhileIdleFails ==
    [][ ( /\ call'.op = "EndCommandBuffer"
          /\ rec.commandBufferActiveIt_ # EndIt
          /\ ~rec.commandBufferActiveList_[rec.commandBufferActiveIt_] )
        => ( /\ call'.cmds = <<>>
             /\ rec' = rec
             /\ cmdBuf' = cmdBuf )
      ]_vars

\* C12: construction submits every fence once with an empty submission, so
\* while no command buffer is ever submitted the fence of a slot that has not
\* begun recording yet is pending or signaled, and it eventually is signaled:
\* the first BeginCommandBuffer on every slot eventually returns.
C12_FirstBeginReturns ==
    /\ [](\A s \in Slots :
            cmdBuf[s].state = "initial" => fence[s] \in {"pending", "signaled"})
    /\ \A s \in Slots : (cmdBuf[s].state = "initial") ~> (fence[s] = "signaled")

\* C12 witness: with nothing submitted, BeginCommandBuffer returned on the last
\* slot after it had returned on the first one.
C12_Witness ==
    /\ call.op = "BeginCommandBuffer"
    /\ rec.commandBuffer_ = BufferCount - 1
    /\ \A s \in {0, BufferCount - 1} : cmdBuf[s].state # "initial"
    /\ Count(call.cmds, "vkBeginCommandBuffer") = 1

-----------------------------------------------------------------------------
(* Properties of the OpenGL render target *)

\* a color attachment: kind Color with a texture of a color format
IsColorAttachment(a) ==
    /\ a.type = "Color"
    /\ a.hasTexture
    /\ a.format \notin {"GL_DEPTH_COMPONENT", "GL_DEPTH_STENCIL"}

\* a descriptor with k <= 32 color attachments and no depth/stencil attachment
ColorOnly(desc) ==
    /\ Len(desc.attachments) <= g_maxFramebufferAttachments
    /\ \A i \in 1 .. Len(desc.attachments) : IsColorAttachment(desc.attachments[i])

\* the framebuffers Bind validates for the descriptor are complete
Complete(desc, backend) ==
    /\ backend.statusPrimary = "complete"
    /\ (Len(desc.attachments) > 0 /\ desc.samples > 1 /\ ~desc.customMultiSampling)
           => backend.statusMS = "complete"

\* C13: Bind of a descriptor with k color attachments (0 <= k <= 32) and no
\* depth/stencil attachment succeeds when its framebuffers are complete, and
\* the render target it returns, in the single-sample, the multi-sample and
\* the empty-attachment path, reports GetNumColorAttachments() = k and neither
\* a depth nor a stencil attachment.
C13_ColorOnlyCounts ==
    (call.op = "Bind" /\ ColorOnly(call.arg)) =>
        /\ Complete(call.arg, call.backend) => call.result = "none"
        /\ call.result = "none" =>
               /\ GetNumColorAttachments(rt) = Len(call.arg.attachments)
               /\ ~HasDepthAttachment(rt)
               /\ ~HasStencilAttachment(rt)

\* C13 witness: a multi-sample render target was bound from 32 color
\* attachments.
C13_Witness ==
    /\ call.op = "Bind"
    /\ ColorOnly(call.arg)
    /\ Len(call.arg.attachments) = g_maxFramebufferAttachments
    /\ call.result = "none"
    /\ rt.framebufferMS_
    /\ GetNumColorAttachments(rt) = g_maxFramebufferAttachments

\* how many attachments of kind Color the descriptor declares
DeclaredColor(desc) ==
    Cardinality({ i \in 1 .. Len(desc.attachments) : desc.attachments[i].type = "Color" })

\* C14: Bind of a descriptor that declares more than 32 attachments of kind
\* Color fails with TooManyColorAttachments and leaves no render target; a
\* descriptor that declares 32 or fewer never fails with that error.
C14_TooManyColorAttachments ==
    call.op = "Bind" =>
        IF DeclaredColor(call.arg) > g_maxFramebufferAttachments
        THEN /\ call.result = "TooManyColorAttachments"
             /\ rt = [err |-> "TooManyColorAttachments"]
             /\ \A i \in 1 .. Len(call.cmds) : call.cmds[i].cmd # "BindFramebuffer"
        ELSE call.result # "TooManyColorAttachments"

\* C14 witness: Bind of 33 attachments of kind Color failed with
\* TooManyColorAttachments.
C14_Witness ==
    /\ call.op = "Bind"
    /\ DeclaredColor(call.arg) = g_maxFramebufferAttachments + 1
    /\ Len(call.arg.attachments) = g_maxFramebufferAttachments + 1
    /\ call.result = "TooManyColorAttachments"
    /\ rt.err # "none"

\* C14 witness of the limit: Bind of exactly 32 attachments of kind Color
\* returned a render target.
C14_WitnessLimit ==
    /\ call.op = "Bind"
    /\ DeclaredColor(call.arg) = g_maxFramebufferAttachments
    /\ call.result = "none"

\* the descriptor holds an attachment of kind Color without a texture
HasColorWithoutTexture(desc) ==
    \E i \in 1 .. Len(desc.attachments) :
        desc.attachments[i].type = "Color" /\ ~desc.attachments[i].hasTexture

\* the failures of Bind that report a malformed descriptor
ValidationErrors ==
    {"TooManyColorAttachments", "DepthAttachmentFailed", "ColorAttachmentWithoutTexture"}

\* C15: Bind of a descriptor that contains an attachment of kind Color without
\* a texture fails with a validation error, in the single-sample and in the
\* multi-sample path, whatever the other attachments are.
C15_ColorWithoutTextureFails ==
    (call.op = "Bind" /\ HasColorWithoutTexture(call.arg)) =>
        call.result \in ValidationErrors

\* Bind of such a descriptor never returns a render target, and in the
\* single-sample path its failure is a validation error.
C15_ColorWithoutTextureNoTarget ==
    (call.op = "Bind" /\ HasColorWithoutTexture(call.arg)) =>
        /\ call.result # "none"
        /\ (call.arg.samples = 1 \/ call.arg.customMultiSampling) =>
               call.result \in ValidationErrors

\* C16 as stated: a successful Bind creates the multi-sample framebuffer if
\* and only if the sample count is greater than 1 and no custom multi-sample
\* texture is requested, for every descriptor, the empty one included.
C16_SecondaryStoreIffSamples ==
    (call.op = "Bind" /\ call.result = "none") =>
        (rt.framebufferMS_ <=> (call.arg.samples > 1 /\ ~call.arg.customMultiSampling))

\* C16 amended: a successful Bind creates the multi-sample framebuffer if and
\* only if the sample count is greater than 1, no custom multi-sample texture
\* is requested and the attachment list is not empty; for an empty attachment
\* list it never creates one.
C16_SecondaryStoreIffSamplesAndAttachments ==
    (call.op = "Bind" /\ call.result = "none") =>
        (rt.framebufferMS_ <=> ( /\ call.arg.samples > 1
                                 /\ ~call.arg.customMultiSampling
                                 /\ Len(call.arg.attachments) > 0 ))

\* C16 witness: Bind of an empty descriptor with 4 samples and no custom
\* multi-sampling returned a render target without multi-sample framebuffer.
C16_Witness ==
    /\ call.op = "Bind"
    /\ call.result = "none"
    /\ Len(call.arg.attachments) = 0
    /\ call.arg.samples > 1
    /\ ~call.arg.customMultiSampling
    /\ ~rt.framebufferMS_
    /\ rt.multiSamples_ > 1

\* C17: BlitOntoFramebuffer on a render target without multi-sample
\* framebuffer binds no framebuffer, issues no native call and changes no
\* state of the render target.
C17_NoResolveWithoutMS ==
    [][ (call'.op = "BlitOntoFramebuffer" /\ ~rt.framebufferMS_) =>
            (call'.cmds = <<>> /\ rt' = rt)
      ]_vars

\* C17 witness: BlitOntoFramebuffer on a single-sample render target with two
\* color attachments issued nothing.
C17_Witness ==
    /\ call.op = "BlitOntoFramebuffer"
    /\ ~rt.framebufferMS_
    /\ GetNumColorAttachments(rt) = 2
    /\ call.cmds = <<>>

\* the calls that copy color slot i of r from the read to the draw framebuffer
SlotBlit(r, i) ==
    << [cmd |-> "glReadBuffer", buffer |-> r.colorAttachments_[i]],
       [cmd |-> "glDrawBuffer", buffers |-> << r.colorAttachments_[i] >>],
       [cmd |-> "Blit", width |-> r.resolution[1], height |-> r.resolution[2],
        mask |-> r.blitMask_] >>

\* the calls between binding and unbinding the two framebuffers
Between(c) == SubSeq(c, 3, Len(c) - 2)

\* the resolve binds the primary framebuffer for drawing and the multi-sample
\* one for reading, copies every color slot in slot order, and unbinds both
ResolvesEverySlot(r, c) ==
    /\ Len(c) = 3 * Len(r.colorAttachments_) + 4
    /\ c[1] = [cmd |-> "Bind", target |-> "DRAW_FRAMEBUFFER", fbo |-> "primary"]
    /\ c[2] = [cmd |-> "Bind", target |-> "READ_FRAMEBUFFER", fbo |-> "ms"]
    /\ \A i \in 1 .. Len(r.colorAttachments_) :
           SubSeq(Between(c), 3 * i - 2, 3 * i) = SlotBlit(r, i)
    /\ c[Len(c) - 1] = [cmd |-> "Unbind", target |-> "READ_FRAMEBUFFER", fbo |-> "ms"]
    /\ c[Len(c)] = [cmd |-> "Unbind", target |-> "DRAW_FRAMEBUFFER", fbo |-> "primary"]

\* some blit of c copies the depth and stencil planes of the blit mask of r
ResolvesDepthStencil(r, c) ==
    r.blitMask_ \cap {"DEPTH", "STENCIL"} # {} =>
        \E i \in 1 .. Len(c) :
            /\ c[i].cmd = "Blit"
            /\ r.blitMask_ \cap {"DEPTH", "STENCIL"} \subseteq c[i].mask

\* C18: BlitOntoFramebuffer on a render target with a multi-sample framebuffer
\* copies every color slot in slot order from the multi-sample to the primary
\* framebuffer over the whole resolution, and copies the depth and stencil
\* planes of the blit mask, also when the target has no color slot.
C18_ResolveCopiesAllPlanes ==
    (call.op = "BlitOntoFramebuffer" /\ rt.framebufferMS_) =>
        /\ ResolvesEverySlot(rt, call.cmds)
        /\ ResolvesDepthStencil(rt, call.cmds)

\* with at least one color slot the resolve copies all planes
C18_ResolveWithColorSlot ==
    (call.op = "BlitOntoFramebuffer" /\ rt.framebufferMS_
        /\ GetNumColorAttachments(rt) > 0) =>
        /\ ResolvesEverySlot(rt, call.cmds)
        /\ ResolvesDepthStencil(rt, call.cmds)

\* without color slot the resolve issues nothing
C18_NoResolveWithoutColorSlot ==
    (call.op = "BlitOntoFramebuffer" /\ GetNumColorAttachments(rt) = 0) =>
        call.cmds = <<>>

-----------------------------------------------------------------------------
(* Properties of the scissor commands *)

\* C19: SetScissors with n entries while the scissor test is enabled issues
\* exactly ceil(n / 16) native set-scissor calls, the j-th with first index
\* 16 * j and the entries [16 * j, min(16 * (j + 1), n)) converted in input
\* order, so every input index is issued exactly once.
C19_ScissorBatches ==
    (call.op = "SetScissors" /\ rec.scissorEnabled_) =>
        LET n == Len(call.arg)
            c == call.cmds
        IN  /\ Len(c) = (n + g_maxNumViewportsPerBatch - 1) \div g_maxNumViewportsPerBatch
            /\ \A j \in 1 .. Len(c) :
                    LET first == g_maxNumViewportsPerBatch * (j - 1)
                        count == Min(g_maxNumViewportsPerBatch, n - first)
                    IN  /\ c[j].cmd = "vkCmdSetScissor"
                        /\ c[j].first = first
                        /\ c[j].count = count
                        /\ c[j].rects =
                               [k \in 1 .. count |-> ConvertScissor(call.arg[first + k])]

\* up to 16 entries SetScissors issues them all in one call
C19_ScissorSingleBatch ==
    (call.op = "SetScissors" /\ rec.scissorEnabled_
        /\ Len(call.arg) \in 1 .. g_maxNumViewportsPerBatch) =>
        /\ Len(call.cmds) = 1
        /\ call.cmds[1].first = 0
        /\ call.cmds[1].rects = [k \in 1 .. Len(call.arg) |-> ConvertScissor(call.arg[k])]

\* C20: while scissorEnabled_ is false, SetScissor and SetScissors record no
\* native command and change neither the recorder nor the native command
\* buffers, for every input.
C20_ScissorIgnoredWhenDisabled ==
    [][ (call'.op \in {"SetScissor", "SetScissors"} /\ ~rec.scissorEnabled_) =>
            /\ call'.cmds = <<>>
            /\ rec' = rec
            /\ cmdBuf' = cmdBuf
            /\ fence' = fence
      ]_vars

\* C20 witness: SetScissor was called inside a render pass of a recording
\* command buffer with the scissor test disabled, and recorded nothing.
C20_Witness ==
    /\ call.op = "SetScissor"
    /\ ~rec.scissorEnabled_
    /\ cmdBuf[rec.commandBuffer_].state = "recording"
    /\ cmdBuf[rec.commandBuffer_].pass = "inside"
    /\ call.cmds = <<>>

\* C20 witness for lists: SetScissors with a non-empty list recorded nothing
\* with the scissor test disabled.
C20_WitnessList ==
    /\ call.op = "SetScissors"
    /\ Len(call.arg) > 0
    /\ ~rec.scissorEnabled_
    /\ cmdBuf[rec.commandBuffer_].state = "recording"
    /\ call.cmds = <<>>

-----------------------------------------------------------------------------
(* Properties of the explicit clear commands *)

\* the clear entries a ClearAttachments call submitted
Submitted(c) == IF Len(c) = 0 THEN <<>> ELSE c[1].attachments

HasColorBit(a) == HasBit(a.flags, ClearFlags_Color)

LacksColorBit(a) == ~HasColorBit(a)

IsColorEntry(e) == e.aspectMask = {"COLOR"}

IsDepthStencilEntry(e) == ~IsColorEntry(e)

\* the submitted color entries are those of the commands of list in that have
\* the Color bit, in order, each with its own index and color, and no more
\* depth-stencil entries are submitted than commands lack the Color bit
ColorBypassesDepthStencil(in, out) ==
    LET colorIn == SelectSeq(in, HasColorBit)
        colorOut == SelectSeq(out, IsColorEntry)
    IN  /\ Len(colorOut) = Len(colorIn)
        /\ \A j \in 1 .. Len(colorIn) :
               /\ colorOut[j].colorAttachment = colorIn[j].colorAttachment
               /\ colorOut[j].clearValue = colorIn[j].clearValue.color
        /\ Len(SelectSeq(out, IsDepthStencilEntry)) <= Len(SelectSeq(in, LacksColorBit))

\* C21 as stated: every command of the list with the Color bit produces
\* exactly one color entry with its own colorAttachment index and color and no
\* depth-stencil entry, whatever its Depth and Stencil bits; a command without
\* the Color bit never produces a color entry.
C21_ColorBypassesDepthStencil ==
    call.op = "ClearAttachments" =>
        /\ Len(call.cmds) <= 1
        /\ ColorBypassesDepthStencil(call.arg, Submitted(call.cmds))

\* C21 amended: the same holds for the first 33 commands of the list; the
\* commands after the 33rd produce no entry at all.
C21_ColorBypassesDepthStencilFirst33 ==
    call.op = "ClearAttachments" =>
        /\ Len(call.cmds) <= 1
        /\ ColorBypassesDepthStencil(
               SubSeq(call.arg, 1, Min(Len(call.arg), g_maxNumAttachments)),
               Submitted(call.cmds))

\* C21 witness: a command with the Color, Depth and Stencil bits followed by
\* a Depth command, on a target with depth-stencil attachment, produced one
\* color entry and one depth entry.
C21_Witness ==
    /\ call.op = "ClearAttachments"
    /\ rec.hasDSVAttachment_
    /\ Len(call.arg) = 2
    /\ call.arg[1].flags = ClearFlags_Color + ClearFlags_Depth + ClearFlags_Stencil
    /\ call.arg[2].flags = ClearFlags_Depth
    /\ Len(call.cmds) = 1
    /\ Len(call.cmds[1].attachments) = 2
    /\ call.cmds[1].attachments[1].aspectMask = {"COLOR"}
    /\ call.cmds[1].attachments[2].aspectMask = {"DEPTH"}

\* the attachment receives a color slot: it has a texture of a color format
ReceivesColorSlot(a) ==
    a.hasTexture /\ a.format \notin {"GL_DEPTH_COMPONENT", "GL_DEPTH_STENCIL"}

\* a texture attached to a color attachment point of the primary framebuffer
IsColorTextureOfPrimary(e) ==
    /\ e.fbo = "primary"
    /\ e.source = "texture"
    /\ e.attachment.point = "GL_COLOR_ATTACHMENT0"

\* C22: after a successful Bind the i-th element of the color slot list is
\* color slot i (0-based), and slot i holds the texture of the i-th attachment
\* of the descriptor that received a color slot; no index is skipped or
\* repeated.
C22_ConsecutiveColorSlots ==
    (call.op = "Bind" /\ call.result = "none") =>
        LET receivers == SelectSeq(call.arg.attachments, ReceivesColorSlot)
            textures == SelectSeq(rt.attached, IsColorTextureOfPrimary)
        IN  /\ Len(rt.colorAttachments_) = Len(receivers)
            /\ Len(textures) = Len(receivers)
            /\ \A i \in 1 .. Len(receivers) :
                   /\ rt.colorAttachments_[i] = [point |-> "GL_COLOR_ATTACHMENT0", index |-> i - 1]
                   /\ textures[i].attachment = rt.colorAttachments_[i]
                   /\ textures[i].format = receivers[i].format

\* C22 witness: a descriptor with a GL_RG color texture, a depth texture and a
\* GL_RGBA color texture was bound with the color textures in slots 0 and 1.
C22_Witness ==
    /\ call.op = "Bind"
    /\ call.result = "none"
    /\ Len(call.arg.attachments) = 3
    /\ call.arg.attachments[1].format = "GL_RG"
    /\ call.arg.attachments[2].format = "GL_DEPTH_COMPONENT"
    /\ call.arg.attachments[3].format = "GL_RGBA"
    /\ Len(rt.colorAttachments_) = 2
    /\ rt.colorAttachments_[2].index = 1

\* C23: a Bind that fails returns no render target: the caller holds only the
\* failure, none of the members of the object under construction, and no
\* operation of a render target can follow before the failure was handled, at
\* whichever step the failure occurred.
C23_FailedBindLeavesNoTarget ==
    /\ [](call.op = "Bind" /\ call.result # "none" => rt = [err |-> call.result])
    /\ [][rt.err # "none" => call'.op \notin {"BlitOntoFramebuffer", "BlitOntoScreen"}]_vars

\* C23 witness: Bind failed on a duplicate depth attachment after the primary
\* framebuffer had been bound, and left no render target.
C23_Witness ==
    /\ call.op = "Bind"
    /\ call.result = "DepthAttachmentFailed"
    /\ Len(call.cmds) > 0
    /\ DOMAIN rt = {"err"}

\* C23 witness of a late failure: the multi-sample framebuffer was incomplete
\* after all attachments had been made.
C23_WitnessLate ==
    /\ call.op = "Bind"
    /\ call.result = "FramebufferIncomplete"
    /\ call.backend.statusPrimary = "complete"
    /\ DOMAIN rt = {"err"}

-----------------------------------------------------------------------------
(* Properties of the query results *)

\* C24: QueryResult and QueryPipelineStatisticsResult poll the query pool
\* once without the wait flag; they return false without an error when the
\* poll answers not-ready, raise an error when it answers any other failure,
\* and return true only when the poll succeeded.
C24_QueryPollDoesNotBlock ==
    call.op \in {"QueryResult", "QueryPipelineStatisticsResult"} =>
        /\ Len(call.cmds) = 1
        /\ call.cmds[1].cmd = "vkGetQueryPoolResults"
        /\ "VK_QUERY_RESULT_WAIT_BIT" \notin call.cmds[1].flags
        /\ call.answer = "VK_NOT_READY" => call.ret = "false"
        /\ call.answer \notin {"VK_NOT_READY", "VK_SUCCESS"} => call.ret = "throw"
        /\ call.ret = "true" <=> call.answer = "VK_SUCCESS"

\* C24 witness: QueryResult returned false on a poll that was not ready.
C24_Witness ==
    /\ call.op = "QueryResult"
    /\ call.answer = "VK_NOT_READY"
    /\ call.ret = "false"
    /\ call.result = <<>>

-----------------------------------------------------------------------------
(* Properties of the slot selection *)

\* C25: SetPresentIndex(idx) is pure selection: it makes the command buffer,
\* the is-active flag and the fence of slot idx the current ones and changes
\* nothing else (no is-active flag, no fence state, no native command buffer,
\* no native call), and a following BeginCommandBuffer waits on the fence of
\* the slot selected last.
C25_AcquireIsPureSelection ==
    [][ /\ call'.op = "SetPresentIndex" =>
            /\ rec' = [rec EXCEPT !.commandBuffer_ = call'.idx,
                                  !.commandBufferActiveIt_ = call'.idx,
                                  !.recordingFence_ = call'.idx]
            /\ cmdBuf' = cmdBuf
            /\ fence' = fence
            /\ call'.cmds = <<>>
        /\ (call'.op = "BeginCommandBuffer" /\ call.op = "SetPresentIndex") =>
            /\ call'.cmds[1] = [cmd |-> "vkWaitForFences", fence |-> call.idx]
            /\ fence[call.idx] = "signaled"
      ]_vars

\* C25 witness: the last slot was selected while slot 0 was recording, and
\* slot 0 kept its is-active flag and its recording.
C25_Witness ==
    /\ call.op = "SetPresentIndex"
    /\ call.idx = BufferCount - 1
    /\ rec.recordingFence_ = BufferCount - 1
    /\ rec.commandBufferActiveList_[0]
    /\ cmdBuf[0].state = "recording"
    /\ fence[0] = "unsignaled"

\* the attachment topology of a render target
Topology(r) ==
    [numColorAttachments |-> GetNumColorAttachments(r),
     hasDepth            |-> HasDepthAttachment(r),
     hasStencil          |-> HasStencilAttachment(r),
     blitMask            |-> r.blitMask_,
     colorSlots          |-> r.colorAttachments_,
     secondaryStore      |-> r.framebufferMS_]

CurrentSlotRecording ==
    /\ rec.commandBufferActiveIt_ # EndIt
    /\ rec.commandBufferActiveList_[rec.commandBufferActiveIt_]

\* C27: a render pass is active only while the current slot is recording: in
\* every reachable state, renderPass_ not VK_NULL_HANDLE implies that the
\* current slot's is-active flag is true.
C27_RenderPassOnlyWhileRecording ==
    rec.renderPass_ # VK_NULL_HANDLE => CurrentSlotRecording

\* C27, the EndCommandBuffer step alone: ending the recording of a slot that
\* is recording leaves no render pass marked active.
C27_EndLeavesNoRenderPass ==
    [][ (call'.op = "EndCommandBuffer" /\ CurrentSlotRecording)
        => rec'.renderPass_ = VK_NULL_HANDLE ]_vars


\* SetPresentIndex selected a slot other than the current one
SelectsOtherSlot ==
    /\ call'.op = "SetPresentIndex"
    /\ rec.commandBufferActiveIt_ # EndIt
    /\ call'.idx # rec.commandBufferActiveIt_

\* C28, slot scope: after SetPresentIndex selected a different slot, the
\* recorder shows no active render pass of the previous slot.
C28_NewSlotSeesNoRenderPass ==
    [][ SelectsOtherSlot => rec'.renderPass_ = VK_NULL_HANDLE ]_vars

\* C28, reset at a render-pass transition: a step that begins a render pass
\* leaves scissorEnabled_ at its initial value, and leaves in
\* numColorAttachments_ and hasDSVAttachment_ either the values of the target
\* the step binds or their initial values; a step that only ends a render pass
\* leaves renderPass_ null.
C28_TransitionResets ==
    [][ /\ Count(call'.cmds, "vkCmdBeginRenderPass") > 0 =>
            /\ rec'.scissorEnabled_ = InitRec.scissorEnabled_
            /\ call'.op = "SetRenderPass" =>
                /\ rec'.numColorAttachments_ = InitRec.numColorAttachments_
                /\ rec'.hasDSVAttachment_ = InitRec.hasDSVAttachment_
        /\ ( /\ Count(call'.cmds, "vkCmdEndRenderPass") > 0
             /\ Count(call'.cmds, "vkCmdBeginRenderPass") = 0 ) =>
            rec'.renderPass_ = VK_NULL_HANDLE
      ]_vars

\* C28: the session state (renderPass_, framebufferExtent_, scissorEnabled_,
\* scissorRectInvalidated_, numColorAttachments_, hasDSVAttachment_) is scoped
\* to one recording slot and reset at each render-pass transition: a newly
\* selected slot does not see the previous slot's active render pass, and
\* after a render-pass transition no field keeps a value set during the
\* previous pass.
C28_SessionStateScoped ==
    [][ /\ SelectsOtherSlot => rec'.renderPass_ = VK_NULL_HANDLE
        /\ Count(call'.cmds, "vkCmdBeginRenderPass") > 0 =>
            /\ rec'.scissorEnabled_ = InitRec.scissorEnabled_
            /\ call'.op = "SetRenderPass" =>
                /\ rec'.numColorAttachments_ = InitRec.numColorAttachments_
                /\ rec'.hasDSVAttachment_ = InitRec.hasDSVAttachment_
        /\ ( /\ Count(call'.cmds, "vkCmdEndRenderPass") > 0
             /\ Count(call'.cmds, "vkCmdBeginRenderPass") = 0 ) =>
            rec'.renderPass_ = VK_NULL_HANDLE
      ]_vars

\* C28, on SetRenderTarget alone: binding a render target leaves
\* scissorEnabled_ at its initial value.
C28_SetRenderTargetResetsScissor ==
    [][ call'.op \in SetRenderTargetOps =>
            rec'.scissorEnabled_ = InitRec.scissorEnabled_ ]_vars


\* the step is a SetGraphicsPipeline call that records a scissor rectangle
SynthesizesScissor ==
    /\ call'.op = "SetGraphicsPipeline"
    /\ Count(call'.cmds, "vkCmdSetScissor") > 0

\* the step begins a render pass
BeginsRenderPass == Count(call'.cmds, "vkCmdBeginRenderPass") > 0

\* C29: within one render pass SetGraphicsPipeline records the synthesized
\* full-extent scissor at most once: it records it only when the bound
\* pipeline has the scissor test disabled, scissorRectInvalidated_ is set and
\* the pipeline declares dynamic scissor state, it records one rectangle of
\* the framebuffer extent and then clears scissorRectInvalidated_, and only a
\* step that begins a render pass sets scissorRectInvalidated_ again; so while
\* the flag is clear, that is until the next render-pass begin, no
\* SetGraphicsPipeline records a scissor.
C29_ScissorSynthesizedOncePerPass ==
    [][ /\ SynthesizesScissor =>
            /\ ~call'.arg.scissorEnabled
            /\ call'.arg.dynamicScissor
            /\ rec.scissorRectInvalidated_
            /\ Count(call'.cmds, "vkCmdSetScissor") = 1
            /\ call'.cmds[Len(call'.cmds)].rects = << Rect(<<0, 0>>, rec.framebufferExtent_) >>
            /\ ~rec'.scissorRectInvalidated_
        /\ (call'.op = "SetGraphicsPipeline" /\ ~rec.scissorRectInvalidated_) =>
            Count(call'.cmds, "vkCmdSetScissor") = 0
        /\ (~rec.scissorRectInvalidated_ /\ rec'.scissorRectInvalidated_) =>
            BeginsRenderPass
      ]_vars

\* C29 witness: inside a render pass whose scissor was already synthesized, a
\* pipeline with the scissor test disabled and dynamic scissor state was bound
\* and no scissor was recorded again.
C29_Witness ==
    /\ call.op = "SetGraphicsPipeline"
    /\ ~call.arg.scissorEnabled
    /\ call.arg.dynamicScissor
    /\ rec.renderPass_ # VK_NULL_HANDLE
    /\ ~rec.scissorRectInvalidated_
    /\ Count(call.cmds, "vkCmdSetScissor") = 0
    /\ cmdBuf[rec.commandBuffer_].pass = "inside"

\* C29 witness: SetGraphicsPipeline recorded the synthesized scissor inside a
\* render pass.
C29_WitnessSynthesized ==
    /\ call.op = "SetGraphicsPipeline"
    /\ rec.renderPass_ # VK_NULL_HANDLE
    /\ Count(call.cmds, "vkCmdSetScissor") = 1
    /\ ~rec.scissorRectInvalidated_


\* the descriptor's attachment is a depth, stencil or depth-stencil
\* attachment: texture-less, or with a texture of a depth format
IsDepthStencilDesc(a) ==
    /\ a.type \in {"Depth", "DepthStencil", "Stencil"}
    /\ a.hasTexture => a.format \in {"GL_DEPTH_COMPONENT", "GL_DEPTH_STENCIL"}

\* the framebuffer drawing happens on
DrawingStore(r) == IF r.framebufferMS_ THEN "ms" ELSE "primary"

\* C30: after a successful Bind every depth, stencil or depth-stencil
\* attachment of the descriptor, texture-less or texture-backed, is attached
\* to the framebuffer where drawing happens: to the multi-sample framebuffer
\* when there is one and none to the primary framebuffer, else to the primary
\* framebuffer.
C30_DepthStencilOnDrawingStore ==
    (call.op = "Bind" /\ call.result = "none") =>
        /\ \A i \in DepthStencilClass(rt) : rt.attached[i].fbo = DrawingStore(rt)
        /\ Cardinality(DepthStencilClass(rt)) =
               Len(SelectSeq(call.arg.attachments, IsDepthStencilDesc))

\* C30 without a multi-sample framebuffer: every depth, stencil or
\* depth-stencil attachment of the descriptor is attached to the primary
\* framebuffer.
C30_PrimaryWithoutSecondary ==
    (call.op = "Bind" /\ call.result = "none" /\ ~rt.framebufferMS_) =>
        /\ \A i \in DepthStencilClass(rt) : rt.attached[i].fbo = "primary"
        /\ Cardinality(DepthStencilClass(rt)) =
               Len(SelectSeq(call.arg.attachments, IsDepthStencilDesc))

\* C30 for texture-less attachments: with a multi-sample framebuffer every
\* depth, stencil or depth-stencil renderbuffer is attached to it.
C30_RenderbuffersOnSecondary ==
    (call.op = "Bind" /\ call.result = "none" /\ rt.framebufferMS_) =>
        \A i \in DepthStencilClass(rt) :
            rt.attached[i].source = "renderbuffer" => rt.attached[i].fbo = "ms"


\* the native calls of c that are recorded into a command buffer other than s
RecordedElsewhere(c, s) ==
    { i \in 1 .. Len(c) : "cb" \in DOMAIN c[i] /\ c[i].cb # s }

\* C31: SetRenderTarget(RenderContext&) makes the recorder the context's
\* present command buffer before it tests the is-active flag and before the
\* render pass begins: the flag tested is the one of the context's
\* presentation slot, recording begins exactly when that slot was idle, every
\* native call of the step is recorded into that slot's command buffer and
\* the render pass of the swap chain begins there; afterwards
\* numColorAttachments_ is 1 and hasDSVAttachment_ is the context's
\* depth-stencil flag.
C31_PresentSlotBeforeBegin ==
    [][ call'.op = "SetRenderTargetContext" =>
            /\ ctx'.presentCommandBuffer
            /\ rec'.commandBuffer_ = call'.idx
            /\ rec'.commandBufferActiveIt_ = call'.idx
            /\ Count(call'.cmds, "vkBeginCommandBuffer") =
                   (IF rec.commandBufferActiveList_[call'.idx] THEN 0 ELSE 1)
            /\ RecordedElsewhere(call'.cmds, call'.idx) = {}
            /\ Count(call'.cmds, "vkCmdBeginRenderPass") = 1
            /\ call'.cmds[Len(call'.cmds)].cmd = "vkCmdBeginRenderPass"
            /\ call'.cmds[Len(call'.cmds)].renderPass = call'.arg.renderPass
            /\ rec'.commandBufferActiveList_[call'.idx]
            /\ rec'.numColorAttachments_ = 1
            /\ rec'.hasDSVAttachment_ = call'.arg.hasDepthStencil
      ]_vars

\* C31 witness: while slot 0 is recording, SetRenderTarget(RenderContext&)
\* with presentation index 1 found slot 1 idle and began recording there.
C31_Witness ==
    /\ call.op = "SetRenderTargetContext"
    /\ call.idx = 1
    /\ rec.commandBufferActiveList_[0]
    /\ cmdBuf[0].state = "recording"
    /\ Count(call.cmds, "vkBeginCommandBuffer") = 1
    /\ rec.commandBuffer_ = 1
    /\ rec.numColorAttachments_ = 1
    /\ rec.hasDSVAttachment_
    /\ ctx.presentCommandBuffer

\* C31 witness: SetRenderTarget(RenderContext&) on a slot that is recording
\* while the recorder's current slot is another, idle one: recording is not
\* begun again.
C31_WitnessRecording ==
    /\ call.op = "SetRenderTargetContext"
    /\ call.idx = 1
    /\ ~rec.commandBufferActiveList_[0]
    /\ call.entry.active
    /\ Count(call.cmds, "vkBeginCommandBuffer") = 0


\* the entries of the list Clear handed over that are not color entries
DepthStencilEntries(c) ==
    IF c = <<>> THEN {}
    ELSE { i \in 1 .. Len(c[1].attachments) : c[1].attachments[i].aspectMask # {"COLOR"} }

\* C32: the depth/stencil entry that Clear(flags) emits has an aspect mask
\* that contains the depth aspect iff the Depth bit of flags is set and the
\* stencil aspect iff the Stencil bit is set, carries the cached clear depth
\* and stencil values, and never has an empty aspect mask; there is at most
\* one such entry and it is the last of the list.
C32_DepthStencilAspects ==
    call.op = "Clear" =>
        /\ Cardinality(DepthStencilEntries(call.cmds)) <= 1
        /\ \A i \in DepthStencilEntries(call.cmds) :
               LET a == call.cmds[1].attachments[i] IN
               /\ i = Len(call.cmds[1].attachments)
               /\ ("DEPTH" \in a.aspectMask) = HasBit(call.flags, ClearFlags_Depth)
               /\ ("STENCIL" \in a.aspectMask) = HasBit(call.flags, ClearFlags_Stencil)
               /\ a.aspectMask \subseteq {"DEPTH", "STENCIL"}
               /\ a.aspectMask # {}
               /\ a.clearValue = rec.clearDepthStencil_

\* C32 witness: Clear(Color | Stencil), after SetClearDepth(0) and
\* SetClearStencil(1), on a target with a depth-stencil attachment emitted a
\* stencil-only entry with the cached values.
C32_Witness ==
    /\ call.op = "Clear"
    /\ call.flags = ClearFlags_Color + ClearFlags_Stencil
    /\ rec.hasDSVAttachment_
    /\ rec.numColorAttachments_ = 2
    /\ rec.clearDepthStencil_ = [depth |-> 0, stencil |-> 1]
    /\ Len(call.cmds) = 1
    /\ Len(call.cmds[1].attachments) = 3
    /\ call.cmds[1].attachments[3].aspectMask = {"STENCIL"}
    /\ call.cmds[1].attachments[3].clearValue = [depth |-> 0, stencil |-> 1]


\* C33: in the multi-sample path the renderbuffer that Bind creates for color
\* slot i has the internal format queried from the texture that was assigned
\* color slot i, whatever the order of color-format and depth-format textures
\* in the descriptor.
C33_RenderbufferFormatOfSlotTexture ==
    (call.op = "Bind" /\ call.result = "none" /\ rt.framebufferMS_) =>
        LET receivers == SelectSeq(call.arg.attachments, ReceivesColorSlot)
        IN  /\ Len(rt.renderbuffersMS_) = Len(receivers)
            /\ \A i \in 1 .. Len(receivers) :
                   /\ rt.renderbuffersMS_[i].attachment = ColorSlot(i - 1)
                   /\ rt.renderbuffersMS_[i].internalFormat = receivers[i].format

\* C33 when every texture of the descriptor has a color format: the formats
\* of the renderbuffers are those of the textures, slot by slot, as long as
\* the descriptor has at most 32 textures.
C33_ColorTexturesOnly ==
    ( /\ call.op = "Bind" /\ call.result = "none" /\ rt.framebufferMS_
      /\ \A k \in 1 .. Len(call.arg.attachments) :
             call.arg.attachments[k].hasTexture => ReceivesColorSlot(call.arg.attachments[k])
      /\ Len(SelectSeq(call.arg.attachments, ReceivesColorSlot)) <= g_maxFramebufferAttachments ) =>
        LET receivers == SelectSeq(call.arg.attachments, ReceivesColorSlot)
        IN  /\ Len(rt.renderbuffersMS_) = Len(receivers)
            /\ \A i \in 1 .. Len(receivers) :
                   rt.renderbuffersMS_[i].internalFormat = receivers[i].format


\* C34: in every state after construction commandBuffer_,
\* commandBufferActiveIt_ and recordingFence_ belong to the same slot index in
\* 0 .. BufferCount - 1, so IsCommandBufferActive reads the flag of an
\* existing slot.
C34_CurrentSlotConsistent ==
    /\ rec.commandBufferActiveIt_ \in Slots
    /\ rec.commandBuffer_ = rec.commandBufferActiveIt_
    /\ rec.recordingFence_ = rec.commandBufferActiveIt_

\* C34, SetRenderTarget(RenderTarget&) alone: whenever it is called, the first
\* call after construction included, the is-active flag it tests is the flag
\* of an existing slot.
C34_SetRenderTargetReadsExistingSlot ==
    [][ call'.op = "SetRenderTarget" => rec.commandBufferActiveIt_ \in Slots ]_vars

\* C34, the handle and the fence alone: commandBuffer_ and recordingFence_
\* always belong to the same slot.
C34_HandleAndFenceSameSlot ==
    /\ rec.commandBuffer_ \in Slots
    /\ rec.recordingFence_ = rec.commandBuffer_


\* C35: with no command buffer ever submitted, the fence of a slot whose
\* recording was ended is signaled or pending, so that the wait of a later
\* BeginCommandBuffer on the slot returns: BeginCommandBuffer never waits on a
\* fence that it reset itself and that no pending submission will signal.
C35_DiscardedSlotFenceWillSignal ==
    \A s \in Slots :
        cmdBuf[s].state \in {"executable", "invalid"} =>
            fence[s] \in {"pending", "signaled"}

\* C35 as a progress property: with no command buffer ever submitted, the
\* fence of a slot whose recording was ended is eventually signaled.
C35_BeginAfterDiscardReturns ==
    \A s \in Slots :
        (cmdBuf[s].state \in {"executable", "invalid"}) ~> (fence[s] = "signaled")

\* C35, what the code does instead: with no command buffer ever submitted,
\* once BeginCommandBuffer has reset the fence of a slot the fence stays
\* unsignaled for ever.
C35_ResetFenceStaysUnsignaled ==
    [][ \A s \in Slots : fence[s] = "unsignaled" => fence'[s] = "unsignaled" ]_vars


\* the step is a SetRenderPass call with the null handle made while a render
\* pass is active
SetRenderPassWithNull ==
    /\ call'.op = "SetRenderPass"
    /\ call'.arg.renderPass = VK_NULL_HANDLE
    /\ rec.renderPass_ # VK_NULL_HANDLE

\* C36: SetRenderPass called with a null handle while a render pass is active
\* records exactly one vkCmdEndRenderPass and leaves renderPass_ and
\* framebuffer_ null, exactly like SetRenderPassNull, so that a following
\* SetRenderPass or SetRenderPassNull records no further end for the pass
\* already ended.
C36_NullRenderPassEndsLikeSetRenderPassNull ==
    [][ SetRenderPassWithNull =>
            /\ Count(call'.cmds, "vkCmdEndRenderPass") = 1
            /\ Len(call'.cmds) = 1
            /\ rec'.renderPass_ = VK_NULL_HANDLE
            /\ rec' = SetRenderPassNullM(Machine).rec
            /\ cmdBuf' = SetRenderPassNullM(Machine).cmdBuf
      ]_vars

\* C36, the native calls alone: SetRenderPass with a null handle while a
\* render pass is active records exactly one vkCmdEndRenderPass, the call
\* SetRenderPassNull records.
C36_NullRenderPassRecordsOneEnd ==
    [][ SetRenderPassWithNull =>
            /\ call'.cmds = SetRenderPassNullM(Machine).cmds
            /\ Count(call'.cmds, "vkCmdEndRenderPass") = 1
            /\ cmdBuf' = SetRenderPassNullM(Machine).cmdBuf
      ]_vars

\* C36, the following call: a SetRenderPass or SetRenderPassNull that follows
\* a SetRenderPass with a null handle records no vkCmdEndRenderPass.
C36_NoSecondEnd ==
    [][ ( /\ call.op = "SetRenderPass"
          /\ call.arg.renderPass = VK_NULL_HANDLE
          /\ call'.op \in {"SetRenderPass", "SetRenderPassNull"} )
        => Count(call'.cmds, "vkCmdEndRenderPass") = 0 ]_vars


\* the clear entries the step handed to vkCmdClearAttachments
SubmittedClears(c) == IF c = <<>> THEN <<>> ELSE c[1].attachments

\* C37: every clear entry that ClearAttachments submits has a non-empty
\* aspect mask, for every input list, entries whose flags hold none of the
\* Color, Depth and Stencil bits included.
C37_NoEmptyAspectMask ==
    call.op = "ClearAttachments" =>
        \A i \in 1 .. Len(SubmittedClears(call.cmds)) :
            SubmittedClears(call.cmds)[i].aspectMask # {}

\* C37 for the entries that name a bit: when every entry of the input list
\* has one of the Color, Depth and Stencil bits, no submitted entry has an
\* empty aspect mask.
C37_NoEmptyAspectMaskWithBits ==
    ( /\ call.op = "ClearAttachments"
      /\ \A k \in 1 .. Len(call.arg) : call.arg[k].flags # 0 ) =>
        \A i \in 1 .. Len(SubmittedClears(call.cmds)) :
            SubmittedClears(call.cmds)[i].aspectMask # {}


\* the converted entries a native call carries: the part of the local array
\* the batch wrote, from index 0
BatchPayload(c) == IF c.cmd = "vkCmdSetViewport" THEN c.viewports ELSE c.rects

\* C38: in SetViewports and SetScissors every native call carries between 1
\* and 16 entries, the local 16-element array is written only at indices
\* 0 .. 15 (entries 1 .. count of the payload), a batch starts where the
\* previous one ended and ends within the input, so the remaining count never
\* goes below zero, and the loop ends after at most n batches.
C38_BatchesWithinBounds ==
    call.op \in {"SetViewports", "SetScissors"} =>
        LET n == Len(call.arg)
            c == call.cmds
        IN  /\ Len(c) <= n
            /\ \A j \in 1 .. Len(c) :
                   /\ c[j].count \in 1 .. g_maxNumViewportsPerBatch
                   /\ DOMAIN BatchPayload(c[j]) = 1 .. c[j].count
                   /\ c[j].first = (IF j = 1 THEN 0 ELSE c[j - 1].first + c[j - 1].count)
                   /\ n - (c[j].first + c[j].count) >= 0

\* C38 witness: SetViewports with 34 viewports issued two batches of 16.
C38_Witness ==
    /\ call.op = "SetViewports"
    /\ Len(call.arg) = 2 * g_maxNumViewportsPerBatch + 2
    /\ Len(call.cmds) = 2
    /\ call.cmds[2].first = g_maxNumViewportsPerBatch
    /\ call.cmds[2].count = g_maxNumViewportsPerBatch

\* C38 witness: SetScissors with 17 scissors, scissor test enabled, issued one
\* batch of 16.
C38_WitnessScissors ==
    /\ call.op = "SetScissors"
    /\ rec.scissorEnabled_
    /\ Len(call.arg) = g_maxNumViewportsPerBatch + 1
    /\ Len(call.cmds) = 1
    /\ call.cmds[1].count = g_maxNumViewportsPerBatch


\* C39: during Bind of a descriptor that passed the color-count check,
\* internalFormats[] is written and read only at indices 0 .. 31: no store of
\* AttachAllTextures lands past the array (the outcome "crash" of such a store
\* never arises) and CreateRenderbuffersMS reads a format that was stored, for
\* color slots 0 .. 31 only.
C39_InternalFormatsWithinBounds ==
    call.op = "Bind" =>
        /\ call.result # "crash"
        /\ (call.result = "none" /\ rt.framebufferMS_) =>
               /\ Len(rt.renderbuffersMS_) <= g_maxFramebufferAttachments
               /\ \A i \in 1 .. Len(rt.renderbuffersMS_) :
                      rt.renderbuffersMS_[i].internalFormat # "indeterminate"

\* C39 for descriptors with at most 32 textures: no store and no read past
\* the array.
C39_WithinBoundsUpTo32Textures ==
    ( /\ call.op = "Bind"
      /\ Cardinality({ k \in 1 .. Len(call.arg.attachments) :
                          call.arg.attachments[k].hasTexture }) <= g_maxFramebufferAttachments ) =>
        /\ call.result # "crash"
        /\ (call.result = "none" /\ rt.framebufferMS_) =>
               \A i \in 1 .. Len(rt.renderbuffersMS_) :
                   rt.renderbuffersMS_[i].internalFormat # "indeterminate"

=============================================================================
